---- MODULE Spec2Model ----
(***************************************************************************)
(* Contact identity resolution and synchronisation engine of wa-js         *)
(* (src/custom/database.ts, src/custom/contacts.ts, schemas/tenant.ts).    *)
(*                                                                         *)
(* A string is a sequence of symbols.  A symbol is one character where the *)
(* code looks inside the string (the session phone, the profile phones) and*)
(* one opaque token where it does not (a wid such as "w1@c.us").  SQL NULL *)
(* and the JS values null / undefined are the reserved string NULL; the JS *)
(* empty string is << >>.                                                  *)
(***************************************************************************)
EXTENDS Integers, Sequences, FiniteSets, TLC

VARIABLES
    users,              \* rows of users JOIN profiles, in rowid order
    contacts,           \* table contacts: sequence of rows, id = position
    contacts_users,     \* table contacts_users: set of rows
    contact_messages,   \* table contact_messages: set of rows
    last_insert_rowid,  \* SQLite last_insert_rowid() of the client connection
    me,                 \* conn.getMyUserId() of each caller
    procs,              \* position and locals of each caller's running call
    aSession,           \* the argument of the function applied on its own
                        \* (AuthSpec: sessionPhone, PhoneSpec: phone)
    aOut,               \* the outcome of the function applied on its own
    client,             \* the store client created when the module loads
    now                 \* the clock of the store, read by CURRENT_TIMESTAMP

dbVars == <<contacts, contacts_users, contact_messages, last_insert_rowid>>
vars == <<users, contacts, contacts_users, contact_messages, last_insert_rowid,
          me, procs, aSession, aOut, client, now>>

-----------------------------------------------------------------------------
(* Values and strings *)

NULL == <<"<null>">>

NoRec == [nil |-> TRUE]

\* JS booleans and numbers, as one-symbol strings
JsTrue == <<"true">>
JsFalse == <<"false">>
JsZero == <<"#0">>
JsOne == <<"#1">>

\* JS truthiness: null, undefined, '', false and 0 are falsy
Truthy(s) == s \notin {NULL, << >>, JsFalse, JsZero}

\* JS property read: a missing property is undefined
Field(rec, key) == IF key \in DOMAIN rec THEN rec[key] ELSE NULL

\* JS `a || b` on string-or-null values
OrElse(a, b) == IF Truthy(a) THEN a ELSE b

DigitChars == {"0", "1", "2", "3", "4", "5", "6", "7", "8", "9"}

RECURSIVE SeqsUpTo(_, _)
SeqsUpTo(S, n) ==
    IF n = 0 THEN {<< >>}
    ELSE LET shorter == SeqsUpTo(S, n - 1)
         IN  shorter \cup {Append(s, c) : s \in {t \in shorter : Len(t) = n - 1}, c \in S}

\* String.prototype.replace(/\D/g, '')
StripNonDigits(s) == SelectSeq(s, LAMBDA c : c \in DigitChars)

Quote == "\""

\* text contains needle as a contiguous run of symbols
Contains(text, needle) ==
    \E k \in 0..(Len(text) - Len(needle)) :
        \A j \in 1..Len(needle) : text[k + j] = needle[j]

RECURSIVE JoinElems(_, _)
JoinElems(arr, k) ==
    IF k > Len(arr) THEN << >>
    ELSE (IF k > 1 THEN <<",">> ELSE << >>)
         \o (IF arr[k] = NULL THEN <<"null">> ELSE <<Quote>> \o arr[k] \o <<Quote>>)
         \o JoinElems(arr, k + 1)

\* JSON.stringify of an array of strings and nulls
JSONStringify(arr) == <<"[">> \o JoinElems(arr, 1) \o <<"]">>

\* JSON.parse of the text JSONStringify writes: the elements between the
\* brackets, a quoted run of symbols or the bare word null
RECURSIVE ParseElems(_, _, _, _, _)
ParseElems(text, k, inStr, cur, acc) ==
    IF k > Len(text) THEN acc
    ELSE IF inStr
         THEN IF text[k] = Quote THEN ParseElems(text, k + 1, FALSE, << >>, Append(acc, cur))
              ELSE ParseElems(text, k + 1, TRUE, Append(cur, text[k]), acc)
         ELSE IF text[k] = Quote THEN ParseElems(text, k + 1, TRUE, << >>, acc)
              ELSE IF text[k] = "null" THEN ParseElems(text, k + 1, FALSE, << >>, Append(acc, NULL))
              ELSE ParseElems(text, k + 1, FALSE, << >>, acc)

JSONParse(text) == ParseElems(text, 1, FALSE, << >>, << >>)

AtSymbols == {"@", "@c.us", "@lid", "@g.us"}

\* String.prototype.replace(/@.*/, '')
RECURSIVE StripAtSuffix(_)
StripAtSuffix(s) ==
    IF s = << >> \/ Head(s) \in AtSymbols THEN << >>
    ELSE <<Head(s)>> \o StripAtSuffix(Tail(s))

StartsWith55(s) == Len(s) >= 2 /\ s[1] = "5" /\ s[2] = "5"

\* SQL `a = b`: NULL equals nothing
SqlEq(a, b) == a # NULL /\ b # NULL /\ a = b

\* SQL `text LIKE '%"value"%'`
SqlLikeQuoted(text, value) ==
    text # NULL /\ Contains(text, <<Quote>> \o value \o <<Quote>>)

-----------------------------------------------------------------------------
(* Tenant auth gate: isAuthenticatedUser / getDbUser *)

AbsentSession == [kind |-> "absent"]
StrSession(s) == [kind |-> "string", s |-> s]
WidSession(ser, usr) == [kind |-> "wid", serialized |-> ser, user |-> usr]

\* `if (!sessionPhone)`
SessionFalsy(sp) ==
    \/ sp.kind = "absent"
    \/ sp.kind = "string" /\ sp.s = << >>

\* typeof sessionPhone === 'string' ? sessionPhone
\*   : sessionPhone._serialized || sessionPhone.user || ''
PhoneStr(sp) ==
    IF sp.kind = "string" THEN sp.s
    ELSE IF Truthy(sp.serialized) THEN sp.serialized
    ELSE IF Truthy(sp.user) THEN sp.user
    ELSE << >>

NormalizedPhone(sp) == StripNonDigits(PhoneStr(sp))

\* WHERE u.is_active = 1 AND (p.phone = ? OR p.wa_phones LIKE ?),
\* the substring variant of the same query
AuthRowMatchesSubstring(u, phone) ==
    /\ u.is_active
    /\ \/ SqlEq(u.phone, phone)
       \/ u.wa_phones # NULL /\ Contains(u.wa_phones, phone)

\* WHERE u.is_active = 1 AND (p.phone = ? OR p.wa_phones LIKE '%"phone"%')
AuthRowMatches(u, phone) ==
    /\ u.is_active
    /\ \/ SqlEq(u.phone, phone)
       \/ SqlLikeQuoted(u.wa_phones, phone)

AuthQuery(rows, phone) == SelectSeq(rows, LAMBDA u : AuthRowMatches(u, phone))

\* isAuthenticatedUser(sessionPhone); storeFails: client.execute throws
IsAuthenticatedUser(rows, sp, storeFails) ==
    IF SessionFalsy(sp) THEN FALSE
    ELSE IF storeFails THEN FALSE
    ELSE Len(AuthQuery(rows, NormalizedPhone(sp))) > 0

\* getDbUser(sessionPhone): rs.rows[0].id or null.  The query has no
\* ORDER BY, so rows[0] is any of the matching rows: the set of the
\* values the call can return
GetDbUser(rows, sp, storeFails) ==
    IF SessionFalsy(sp) THEN {NULL}
    ELSE IF storeFails THEN {NULL}
    ELSE LET rs == AuthQuery(rows, NormalizedPhone(sp))
         IN  IF Len(rs) > 0 THEN {rs[k].id : k \in 1..Len(rs)} ELSE {NULL}

\* a gate that lets every caller through
GateNeverDenies(userId) == FALSE

\* `if (!userId)` / `if (!(await isAuthenticatedUser(me)))`
GateDenies(userId) == ~Truthy(userId)

-----------------------------------------------------------------------------
(* Tables of the tenant schema and the statements issued against them *)

\* args [wid, name, phone, phoneBR, there_is, linkStr] of the contacts INSERTs
ContactRow(wid, name, phone, phoneBR, there_is, linkStr) ==
    [wid |-> wid, name |-> name, phone |-> phone, phoneBR |-> phoneBR,
     there_is |-> there_is, link |-> linkStr]

\* there_is BOOLEAN NOT NULL ... CHECK (there_is IN (0, 1))
ContactRowRejected(row) == row.there_is \notin {JsTrue, JsFalse}

\* wid TEXT UNIQUE: a second row with the same non-NULL wid is rejected
WidTaken(rows, wid) == wid # NULL /\ \E i \in 1..Len(rows) : rows[i].wid = wid

\* a plain INSERT INTO contacts that never looks at existing rows
AppendContact(rows, row) == Append(rows, row)

\* INSERT INTO contacts ... ON CONFLICT(wid) DO UPDATE SET name, phone,
\* phoneBR, there_is, link = excluded.*
UpsertContact(rows, row) ==
    IF WidTaken(rows, row.wid)
    THEN [i \in 1..Len(rows) |-> IF rows[i].wid = row.wid THEN row ELSE rows[i]]
    ELSE Append(rows, row)

\* SELECT id FROM contacts WHERE wid = ? [LIMIT 1]; 0 when no row
SelectIdByWid(rows, wid) ==
    IF WidTaken(rows, wid)
    THEN CHOOSE i \in 1..Len(rows) :
            /\ rows[i].wid = wid
            /\ \A j \in 1..Len(rows) : rows[j].wid = wid => i <= j
    ELSE 0

\* UPDATE contacts SET name, phone, phoneBR, there_is, link WHERE id = ?
UpdateContact(rows, id, row) ==
    [i \in 1..Len(rows) |-> IF i = id THEN [row EXCEPT !.wid = rows[i].wid] ELSE rows[i]]

\* SELECT contact_id FROM contacts_users WHERE user_id = ? AND lid = ?
\* (no ORDER BY: rows[0] is any matching row); {0} when no row matches
SelectContactIdByLid(cu, userId, lid) ==
    LET rs == {r \in cu : r.user_id = userId /\ SqlEq(r.lid, lid)}
    IN  IF rs = {} THEN {0} ELSE {r.contact_id : r \in rs}

\* the overlay columns the contacts_users upsert writes
OverlayCols == {"lid", "name", "short_name", "pushname", "type", "is_business",
                "is_enterprise", "verified_name", "is_contact_sync_completed",
                "sync_to_addressbook"}

\* CURRENT_TIMESTAMP: the reading of the clock, as a string
CurrentTimestamp == [k \in 1..(now + 1) |-> "t"]

\* the SET list that also writes deleted_at = excluded.deleted_at
OverlaySetColsAndDeleted == OverlayCols \cup {"assigned_at", "deleted_at"}

\* the overlay columns and `assigned_at = CURRENT_TIMESTAMP`
OverlaySetCols == OverlayCols \cup {"assigned_at"}

\* the args of a contacts_users upsert with the CURRENT_TIMESTAMP of its
\* VALUES list
WithAssignedAt(cols) ==
    [k \in DOMAIN cols \cup {"assigned_at"} |->
        IF k = "assigned_at" THEN CurrentTimestamp ELSE cols[k]]

\* a contacts_users row with the column defaults of the schema
ContactUserRow(contactId, userId, cols) ==
    [contact_id |-> contactId, user_id |-> userId,
     lid |-> Field(cols, "lid"), name |-> Field(cols, "name"),
     short_name |-> Field(cols, "short_name"), pushname |-> Field(cols, "pushname"),
     type |-> Field(cols, "type"), is_business |-> Field(cols, "is_business"),
     is_enterprise |-> Field(cols, "is_enterprise"),
     verified_name |-> Field(cols, "verified_name"),
     is_contact_sync_completed |-> Field(cols, "is_contact_sync_completed"),
     sync_to_addressbook |-> Field(cols, "sync_to_addressbook"),
     is_group |-> JsZero, wa_labels |-> NULL,
     assigned_at |-> CurrentTimestamp, created_at |-> CurrentTimestamp,
     updated_at |-> CurrentTimestamp, deleted_at |-> NULL]

HasContactUser(cu, contactId, userId) ==
    \E r \in cu : r.contact_id = contactId /\ r.user_id = userId

\* the upsert with the conflict on contact_id alone: every row of the
\* contact takes the values
UpsertContactUserAnyUser(cu, contactId, userId, cols, setCols) ==
    IF \E r \in cu : r.contact_id = contactId
    THEN {IF r.contact_id = contactId
          THEN [c \in DOMAIN r |-> IF c \in setCols THEN Field(cols, c) ELSE r[c]]
          ELSE r : r \in cu}
    ELSE cu \cup {ContactUserRow(contactId, userId, cols)}

\* INSERT INTO contacts_users (...) ON CONFLICT(contact_id, user_id)
\* DO UPDATE SET <setCols> = excluded.*
UpsertContactUser(cu, contactId, userId, cols, setCols) ==
    IF HasContactUser(cu, contactId, userId)
    THEN {IF r.contact_id = contactId /\ r.user_id = userId
          THEN [c \in DOMAIN r |-> IF c \in setCols THEN Field(cols, c) ELSE r[c]]
          ELSE r : r \in cu}
    ELSE cu \cup {ContactUserRow(contactId, userId, cols)}

\* the statement `UPDATE contacts_users SET ... WHERE contact_id = (SELECT id
\* FROM contacts WHERE wid = ? LIMIT 1) AND user_id = ?` applied to the row
\* (set[r] is the row r after the SET clause)
UpdateContactUserWhere(cu, contactId, userId, set) ==
    {IF r.contact_id = contactId /\ r.user_id = userId THEN set[r] ELSE r : r \in cu}

\* SET deleted_at = CURRENT_TIMESTAMP, updated_at = CURRENT_TIMESTAMP
SetDeleted(r) ==
    [r EXCEPT !.deleted_at = CurrentTimestamp, !.updated_at = CurrentTimestamp]

\* the row put back as a new row of the pair, with the column defaults
SetRestoredAsNew(r) == ContactUserRow(r.contact_id, r.user_id, [lid |-> r.lid])

\* SET deleted_at = NULL, updated_at = CURRENT_TIMESTAMP
SetRestored(r) ==
    [r EXCEPT !.deleted_at = NULL, !.updated_at = CurrentTimestamp]

\* v_contacts_users_active: deleted_at IS NULL
V_contacts_users_active(cu) == {r \in cu : r.deleted_at = NULL}

\* v_contacts_users_deleted: deleted_at IS NOT NULL
V_contacts_users_deleted(cu) == {r \in cu : r.deleted_at # NULL}

\* v_contacts_with_users: the contacts joined with their users' rows,
\* without the deleted ones
V_contacts_with_users(rows, cu) ==
    {[contact |-> rows[r.contact_id], contact_user |-> r] :
        r \in {x \in cu : x.deleted_at = NULL /\ x.contact_id \in 1..Len(rows)}}

\* v_user_contacts_count: the number of rows of a user that are not deleted
V_user_contacts_count(cu, userId) ==
    Cardinality({r \in cu : r.user_id = userId /\ r.deleted_at = NULL})

\* contact_id INTEGER NOT NULL
ContactIdRejected(contactId) == contactId = 0

\* message body as stored: `type === 'document' ? null : body`
StoredBody(m) == IF m.type = <<"document">> THEN NULL ELSE m.body

\* args of the contact_messages upsert
MessageRow(contactId, userId, m) ==
    [contact_id |-> contactId, user_id |-> userId,
     message_id |-> m.message_id, chat_id |-> m.chat_id,
     body |-> StoredBody(m), type |-> m.type,
     timestamp_ms |-> m.timestamp_ms, ack |-> m.ack,
     is_forwarded |-> IF Truthy(m.is_forwarded) THEN JsOne ELSE JsZero,
     unread_count |-> m.unread_count,
     has_unread |-> IF Truthy(m.has_unread) THEN JsOne ELSE JsZero,
     exists_flag |-> IF Truthy(m.exists_flag) THEN JsOne ELSE JsZero]

\* message_id TEXT NOT NULL
MessageRowRejected(row) == row.message_id = NULL \/ row.contact_id = 0

\* INSERT ... ON CONFLICT DO NOTHING: the row of the pair is kept
InsertMessageOrIgnore(cm, row) ==
    IF \E r \in cm : r.contact_id = row.contact_id /\ r.user_id = row.user_id
    THEN cm
    ELSE cm \cup {row}

\* INSERT INTO contact_messages (...) ON CONFLICT(contact_id, user_id)
\* DO UPDATE SET every snapshot column = excluded.*
UpsertMessage(cm, row) ==
    IF \E r \in cm : r.contact_id = row.contact_id /\ r.user_id = row.user_id
    THEN {IF r.contact_id = row.contact_id /\ r.user_id = row.user_id THEN row ELSE r
          : r \in cm}
    ELSE cm \cup {row}

-----------------------------------------------------------------------------
(* Bounds and the inputs the callers draw from *)

\* the clock is read up to this value
MaxNow == 2

Procs == {1, 2}

\* callers start no call that could take the contacts table past this size
MaxContacts == 2

P1 == <<"5", "1", "7">>
P2 == <<"5", "1", "8">>
W1 == P1 \o <<"@c.us">>
W2 == P2 \o <<"@c.us">>
L1 == <<"9", "@lid">>

\* users JOIN profiles of the tenant: u1 by profile phone, u2 by wa_phones,
\* u3 deactivated
DefaultUsers ==
    << [id |-> <<"u1">>, is_active |-> TRUE, phone |-> <<"5", "1">>, wa_phones |-> NULL],
       [id |-> <<"u2">>, is_active |-> TRUE, phone |-> NULL,
        wa_phones |-> JSONStringify(<< <<"5", "2">> >>)],
       [id |-> <<"u3">>, is_active |-> FALSE, phone |-> <<"5", "3">>, wa_phones |-> NULL] >>

Session1 == WidSession(<<"5", "1", "@c.us">>, <<"5", "1">>)
Session2 == WidSession(<<"5", "2", "@c.us">>, <<"5", "2">>)
Session3 == WidSession(<<"5", "3", "@c.us">>, <<"5", "3">>)

\* `contact` of getPnLidEntry (camelCase keys)
EntryContact ==
    [name |-> <<"Ann">>, shortName |-> <<"An">>, pushname |-> <<"ann">>,
     type |-> <<"in">>, isBusiness |-> JsFalse, isEnterprise |-> JsTrue,
     verifiedName |-> NULL, isContactSyncCompleted |-> JsOne,
     syncToAddressbook |-> JsTrue]

\* `contact_user` of getAllContacts (snake_case keys)
ScanContactUser(lid) ==
    [lid |-> lid, is_business |-> NULL, is_contact_sync_completed |-> JsOne,
     is_enterprise |-> NULL, name |-> <<"Ann">>, pushname |-> <<"ann">>,
     short_name |-> <<"An">>, sync_to_addressbook |-> JsOne, type |-> <<"in">>,
     verified_name |-> NULL, is_group |-> JsFalse, labels |-> << >>]

TextMessage ==
    [message_id |-> <<"m1">>, chat_id |-> W1, body |-> <<"hi">>, type |-> <<"chat">>,
     timestamp_ms |-> <<"#2">>, ack |-> JsOne, is_forwarded |-> JsFalse,
     unread_count |-> JsOne, has_unread |-> JsTrue, exists_flag |-> JsTrue]

DocMessage ==
    [message_id |-> <<"m2">>, chat_id |-> W2, body |-> <<"file">>, type |-> <<"document">>,
     timestamp_ms |-> JsOne, ack |-> JsZero, is_forwarded |-> JsTrue,
     unread_count |-> JsZero, has_unread |-> JsFalse, exists_flag |-> JsTrue]

\* a text message older than TextMessage
OlderTextMessage ==
    [message_id |-> <<"m0">>, chat_id |-> W1, body |-> <<"old">>, type |-> <<"chat">>,
     timestamp_ms |-> <<"#1">>, ack |-> JsOne, is_forwarded |-> JsFalse,
     unread_count |-> JsZero, has_unread |-> JsFalse, exists_flag |-> JsTrue]

\* an image with a caption
ImageMessage ==
    [message_id |-> <<"m3">>, chat_id |-> W1, body |-> <<"caption">>, type |-> <<"image">>,
     timestamp_ms |-> <<"#3">>, ack |-> JsOne, is_forwarded |-> JsFalse,
     unread_count |-> JsZero, has_unread |-> JsFalse, exists_flag |-> JsTrue]

\* arguments of saveContact: {there_is, data}
ObsWid ==
    [there_is |-> JsTrue,
     data |-> [wid |-> W1, lid |-> NULL, name |-> <<"Ann">>, phone |-> P1,
               phoneBR |-> P1, link |-> <<W1, P1, P1>>, contact |-> EntryContact]]
ObsLid ==
    [there_is |-> JsTrue,
     data |-> [wid |-> NULL, lid |-> L1, name |-> NULL, phone |-> NULL,
               phoneBR |-> NULL, link |-> <<L1>>, contact |-> NoRec]]
ObsWidLid ==
    [there_is |-> JsTrue,
     data |-> [wid |-> W1, lid |-> L1, name |-> <<"Ann">>, phone |-> P1,
               phoneBR |-> P1, link |-> <<W1, P1, P1>>, contact |-> NoRec]]
ObsNone ==
    [there_is |-> JsFalse,
     data |-> [wid |-> NULL, lid |-> NULL, name |-> NULL, phone |-> P2,
               phoneBR |-> P2, link |-> <<P2, P2>>, contact |-> NoRec]]

Observations == {ObsWid, ObsLid, ObsWidLid, ObsNone}

\* arguments of saveFullContact and items of saveContactsBatch:
\* {contact, contact_user, lastMessage}
ItemWid ==
    [contact |-> [wid |-> W1, name |-> <<"Ann">>, phone |-> P1, phoneBR |-> P1,
                  there_is |-> JsTrue, link |-> <<W1, P1, P1, L1>>],
     contact_user |-> ScanContactUser(L1), lastMessage |-> TextMessage]
ItemWid2 ==
    [contact |-> [wid |-> W2, name |-> <<"Bob">>, phone |-> P2, phoneBR |-> P2,
                  there_is |-> JsTrue, link |-> <<W2, P2, P2>>],
     contact_user |-> NoRec, lastMessage |-> DocMessage]
ItemLid ==
    [contact |-> [wid |-> NULL, lid |-> L1, name |-> NULL, phone |-> NULL,
                  phoneBR |-> NULL, there_is |-> JsTrue, link |-> <<L1>>],
     contact_user |-> NoRec, lastMessage |-> NoRec]
ItemNone ==
    [contact |-> [wid |-> NULL, name |-> NULL, phone |-> P2, phoneBR |-> P2,
                  there_is |-> JsFalse, link |-> <<P2, P2>>],
     contact_user |-> NoRec, lastMessage |-> NoRec]

Items == {ItemWid, ItemWid2, ItemLid, ItemNone}

-----------------------------------------------------------------------------
(* Callers *)

IdleProc ==
    [op |-> "idle", pc |-> "idle", info |-> NoRec, there_is |-> NULL,
     arg |-> NoRec, msg |-> NoRec, key |-> NULL, queue |-> << >>,
     userId |-> NULL, contactId |-> 0, result |-> NoRec,
     denied |-> FALSE, writes |-> 0, live |-> 0, cached |-> NoRec,
     repeat |-> FALSE, len0 |-> 0, cu0 |-> 0, reserve |-> 0,
     i |-> 0, saved |-> 0, failed |-> 0, submitted |-> << >>, partial |-> FALSE,
     total |-> 0, created |-> 0]

Ret(v) == [v |-> v]

\* the first gate of each entry point (saveFullContact has it in saveContact)
EntryGate ==
    [saveContact |-> "sc_auth", saveFullContact |-> "sc_auth",
     saveContactMessage |-> "scm_auth", saveContactsBatch |-> "b_auth",
     getContactByLink |-> "gl_auth", checkNumber |-> "cn_auth",
     syncAllContacts |-> "sy_auth"]

\* the entry gate of the running call did not resolve the session identity
\* to an active user (the auth query found no row, or failed)
EntryDenied(pr, gate, value) == EntryGate[pr.op] = gate /\ ~Truthy(value)

Finish(pr, result) == [pr EXCEPT !.pc = "done", !.result = result]

\* createClient({url: DB_URL || '', authToken: DB_TOKEN || ''}) at module
\* load.  With an empty url the library either throws, and the module does
\* not load, or returns a client; an empty authToken is accepted
CreateClient(DB_URL, DB_TOKEN) ==
    LET url == OrElse(DB_URL, << >>)
        authToken == OrElse(DB_TOKEN, << >>)
    IN  {[url |-> url, authToken |-> authToken, loaded |-> l] :
            l \in IF url = << >> THEN BOOLEAN ELSE {TRUE}}

EnvUrl == <<"libsql://tenant">>
EnvToken == <<"token">>

\* the client of a process started with both variables set
DefaultClient == [url |-> EnvUrl, authToken |-> EnvToken, loaded |-> TRUE]

\* sequential callers: a call starts when no other call is running
Quiet == \A q \in Procs : procs[q].op = "idle"

Reserved == procs[1].reserve + procs[2].reserve

CanCall(p, seq, rows) ==
    /\ client.loaded
    /\ procs[p].op = "idle"
    /\ seq => Quiet
    /\ Len(contacts) + Reserved + rows <= MaxContacts

Started(p, op, arg, rows) ==
    [IdleProc EXCEPT !.op = op, !.arg = arg, !.reserve = rows]

\* saveFullContact: contactInfo = {...contactData.contact,
\*                                 contact: contactData.contact_user}
ContactInfo(contactData) ==
    [k \in DOMAIN contactData.contact \cup {"contact"} |->
        IF k = "contact" THEN contactData.contact_user ELSE contactData.contact[k]]

\* `info.contact` is truthy
HasOverlay(info) == Field(info, "contact") \notin {NoRec, NULL}

OrNull(v) == IF Truthy(v) THEN v ELSE NULL

\* args of the contacts_users upsert of saveContact
OverlayArgs(info) ==
    LET c == info.contact
    IN  [lid |-> OrNull(Field(info, "lid")),
         name |-> OrNull(Field(c, "name")),
         short_name |-> OrNull(Field(c, "shortName")),
         pushname |-> OrNull(Field(c, "pushname")),
         type |-> OrNull(Field(c, "type")),
         is_business |-> OrNull(Field(c, "isBusiness")),
         is_enterprise |-> OrNull(Field(c, "isEnterprise")),
         verified_name |-> OrNull(Field(c, "verifiedName")),
         is_contact_sync_completed |-> OrNull(Field(c, "isContactSyncCompleted")),
         sync_to_addressbook |-> OrNull(Field(c, "syncToAddressbook"))]

\* args of the contacts upsert / insert of saveContact
InfoRow(info, there_is) ==
    ContactRow(Field(info, "wid"), Field(info, "name"), Field(info, "phone"),
               Field(info, "phoneBR"), there_is, JSONStringify(info.link))

\* args of the UPDATE contacts of the lid path (`info.name || null`, ...)
InfoUpdateRow(info, there_is) ==
    ContactRow(NULL, OrNull(Field(info, "name")), OrNull(Field(info, "phone")),
               OrNull(Field(info, "phoneBR")), there_is, JSONStringify(info.link))

\* syncAllContacts: `for (const contact of contacts)` at the contact of
\* position i, or the summary after the last one
SyncLoop(pr) ==
    IF pr.i > Len(pr.queue)
    THEN Finish(pr, [success |-> JsTrue, total |-> Len(pr.queue),
                     saved |-> pr.saved, failed |-> pr.failed])
    ELSE [pr EXCEPT !.pc = "sc_auth",
                    !.info = ContactInfo(pr.queue[pr.i]),
                    !.there_is = Field(pr.queue[pr.i].contact, "there_is"),
                    !.msg = pr.queue[pr.i].lastMessage,
                    !.userId = NULL, !.contactId = 0, !.created = 0]

\* a loop that leaves at the first contact that fails
AfterSaveFullStopOnFail(pr, ok) ==
    IF pr.op = "syncAllContacts"
    THEN IF ok THEN SyncLoop([pr EXCEPT !.saved = @ + 1, !.i = @ + 1])
         ELSE Finish(pr, [success |-> JsTrue, total |-> Len(pr.queue),
                          saved |-> pr.saved, failed |-> pr.failed + 1])
    ELSE Finish(pr, Ret(IF ok THEN JsTrue ELSE JsFalse))

\* saveFullContact returned `ok`; syncAllContacts:
\* `if (result) savedCount++; else failedCount++`
AfterSaveFull(pr, ok) ==
    IF pr.op = "syncAllContacts"
    THEN SyncLoop([pr EXCEPT !.saved = IF ok THEN @ + 1 ELSE @,
                             !.failed = IF ok THEN @ ELSE @ + 1,
                             !.i = @ + 1])
    ELSE Finish(pr, Ret(IF ok THEN JsTrue ELSE JsFalse))

\* saveContactMessage returned `ok`; saveFullContact ignores the value
AfterSaveContactMessage(pr, ok) ==
    IF pr.op = "saveContactMessage"
    THEN Finish(pr, Ret(IF ok THEN JsTrue ELSE JsFalse))
    ELSE AfterSaveFull(pr, TRUE)

\* saveContact returned `saved`; saveFullContact: `if (!saved) return false`,
\* then `if (contactData.lastMessage) { if (wid) await saveContactMessage }`
AfterSaveContact(pr, saved) ==
    IF pr.op = "saveContact"
    THEN Finish(pr, Ret(IF saved THEN JsTrue ELSE JsFalse))
    ELSE IF ~saved THEN AfterSaveFull(pr, FALSE)
    ELSE IF pr.msg # NoRec /\ Truthy(Field(pr.info, "wid"))
         THEN [pr EXCEPT !.pc = "scm_auth", !.key = Field(pr.info, "wid"),
                         !.userId = NULL, !.contactId = 0]
         ELSE AfterSaveFull(pr, TRUE)

\* `if (info.wid) ... else { if (info.lid) ...; if (!contactId) ... }`
ContactBranch(info) ==
    IF Truthy(Field(info, "wid")) THEN "sc_upsert"
    ELSE IF Truthy(Field(info, "lid")) THEN "sc_lookup"
    ELSE "sc_insert"

\* `if (contactId && info.contact) ... else if (contactId) ...`, `return true`
ToContactUser(pr) ==
    IF pr.contactId = 0 THEN AfterSaveContact(pr, TRUE) ELSE [pr EXCEPT !.pc = "sc_cu"]

StoreFrame == UNCHANGED <<users, me, aSession, aOut, client, now>>

-----------------------------------------------------------------------------
(* saveContact, one action per store call *)

\* `const me = await conn.getMyUserId(); const userId = await getDbUser(me);
\*  if (!userId) return false`
SaveContactAuth(p) ==
    /\ procs[p].pc = "sc_auth"
    /\ \E fails \in BOOLEAN : \E uid \in GetDbUser(users, me[p], fails) :
         LET pr == [procs[p] EXCEPT !.denied = @ \/ EntryDenied(procs[p], "sc_auth", uid)]
         IN  procs' = [procs EXCEPT ![p] =
                IF GateDenies(uid) THEN AfterSaveContact(pr, FALSE)
                ELSE [pr EXCEPT !.userId = uid, !.pc = ContactBranch(pr.info)]]
    /\ UNCHANGED dbVars
    /\ StoreFrame

\* wid path: INSERT ... ON CONFLICT(wid) DO UPDATE
SaveContactUpsert(p) ==
    /\ procs[p].pc = "sc_upsert"
    /\ LET pr == [procs[p] EXCEPT !.writes = @ + 1]
           row == InfoRow(pr.info, pr.there_is)
       IN  \E fails \in BOOLEAN :
             IF fails \/ ContactRowRejected(row)
             THEN /\ procs' = [procs EXCEPT ![p] = AfterSaveContact(pr, FALSE)]
                  /\ UNCHANGED dbVars
             ELSE /\ contacts' = UpsertContact(contacts, row)
                  /\ last_insert_rowid' =
                        IF Len(contacts') > Len(contacts) THEN Len(contacts')
                        ELSE last_insert_rowid
                  /\ procs' = [procs EXCEPT ![p] =
                        [pr EXCEPT !.pc = "sc_selid",
                                   !.created = IF Len(contacts') > Len(contacts)
                                               THEN Len(contacts') ELSE 0]]
                  /\ UNCHANGED <<contacts_users, contact_messages>>
    /\ StoreFrame

\* wid path: SELECT id FROM contacts WHERE wid = ?
SaveContactSelectId(p) ==
    /\ procs[p].pc = "sc_selid"
    /\ \E fails \in BOOLEAN :
         procs' = [procs EXCEPT ![p] =
            IF fails THEN AfterSaveContact(@, FALSE)
            ELSE ToContactUser([@ EXCEPT !.contactId = SelectIdByWid(contacts, procs[p].info.wid)])]
    /\ UNCHANGED dbVars
    /\ StoreFrame

\* lid path: SELECT contact_id FROM contacts_users WHERE user_id = ? AND lid = ?
\* the inner catch swallows a failure and the insert follows
SaveContactLookup(p) ==
    /\ procs[p].pc = "sc_lookup"
    /\ \E fails \in BOOLEAN :
         IF fails
         THEN procs' = [procs EXCEPT ![p] = [@ EXCEPT !.pc = "sc_insert"]]
         ELSE \E cid \in SelectContactIdByLid(contacts_users, procs[p].userId,
                                              procs[p].info.lid) :
                procs' = [procs EXCEPT ![p] =
                    IF cid # 0 THEN [@ EXCEPT !.contactId = cid, !.pc = "sc_update"]
                    ELSE [@ EXCEPT !.pc = "sc_insert"]]
    /\ UNCHANGED dbVars
    /\ StoreFrame

\* lid path, row found: UPDATE contacts SET ... WHERE id = ?
\* a failure is swallowed by the inner catch with contactId already set
SaveContactUpdate(p) ==
    /\ procs[p].pc = "sc_update"
    /\ LET pr == [procs[p] EXCEPT !.writes = @ + 1]
           row == InfoUpdateRow(pr.info, pr.there_is)
       IN  \E fails \in BOOLEAN :
             /\ contacts' = IF fails \/ ContactRowRejected(row) THEN contacts
                            ELSE UpdateContact(contacts, pr.contactId, row)
             /\ procs' = [procs EXCEPT ![p] = ToContactUser(pr)]
    /\ UNCHANGED <<contacts_users, contact_messages, last_insert_rowid>>
    /\ StoreFrame

\* no wid and no row found: INSERT INTO contacts
SaveContactInsert(p) ==
    /\ procs[p].pc = "sc_insert"
    /\ LET pr == [procs[p] EXCEPT !.writes = @ + 1]
           row == InfoRow(pr.info, pr.there_is)
       IN  \E fails \in BOOLEAN :
             IF fails \/ ContactRowRejected(row) \/ WidTaken(contacts, row.wid)
             THEN /\ procs' = [procs EXCEPT ![p] = AfterSaveContact(pr, FALSE)]
                  /\ UNCHANGED dbVars
             ELSE /\ contacts' = AppendContact(contacts, row)
                  /\ last_insert_rowid' = Len(contacts')
                  /\ procs' = [procs EXCEPT ![p] =
                        [pr EXCEPT !.pc = "sc_rowid", !.created = Len(contacts')]]
                  /\ UNCHANGED <<contacts_users, contact_messages>>
    /\ StoreFrame

\* SELECT last_insert_rowid() as id; `contactId = row.id || row[0]`
SaveContactRowid(p) ==
    /\ procs[p].pc = "sc_rowid"
    /\ \E fails \in BOOLEAN :
         procs' = [procs EXCEPT ![p] =
            IF fails THEN AfterSaveContact(@, FALSE)
            ELSE ToContactUser([@ EXCEPT !.contactId = last_insert_rowid])]
    /\ UNCHANGED dbVars
    /\ StoreFrame

\* INSERT INTO contacts_users ... ON CONFLICT(contact_id, user_id) DO UPDATE:
\* every overlay column when info.contact is set, lid alone otherwise
SaveContactUser(p) ==
    /\ procs[p].pc = "sc_cu"
    /\ LET pr == [procs[p] EXCEPT !.writes = @ + 1]
           cols == IF HasOverlay(pr.info) THEN WithAssignedAt(OverlayArgs(pr.info))
                   ELSE [lid |-> OrNull(Field(pr.info, "lid"))]
           setCols == IF HasOverlay(pr.info) THEN OverlaySetCols ELSE {"lid"}
       IN  \E fails \in BOOLEAN :
             IF fails
             THEN /\ procs' = [procs EXCEPT ![p] = AfterSaveContact(pr, FALSE)]
                  /\ UNCHANGED dbVars
             ELSE /\ contacts_users' =
                        UpsertContactUser(contacts_users, pr.contactId, pr.userId, cols, setCols)
                  /\ last_insert_rowid' =
                        IF contacts_users' # contacts_users
                           /\ Cardinality(contacts_users') > Cardinality(contacts_users)
                        THEN Cardinality(contacts_users') ELSE last_insert_rowid
                  /\ procs' = [procs EXCEPT ![p] = AfterSaveContact(pr, TRUE)]
                  /\ UNCHANGED <<contacts, contact_messages>>
    /\ StoreFrame

-----------------------------------------------------------------------------
(* saveContactMessage *)

\* `const userId = await getDbUser(me); if (!userId) return false`
SaveMessageAuth(p) ==
    /\ procs[p].pc = "scm_auth"
    /\ \E fails \in BOOLEAN : \E uid \in GetDbUser(users, me[p], fails) :
         LET pr == [procs[p] EXCEPT !.denied = @ \/ EntryDenied(procs[p], "scm_auth", uid)]
         IN  procs' = [procs EXCEPT ![p] =
                IF GateDenies(uid) THEN AfterSaveContactMessage(pr, FALSE)
                ELSE [pr EXCEPT !.userId = uid, !.pc = "scm_select"]]
    /\ UNCHANGED dbVars
    /\ StoreFrame

\* SELECT id FROM contacts WHERE wid = ? LIMIT 1; no row: return false
SaveMessageSelect(p) ==
    /\ procs[p].pc = "scm_select"
    /\ \E fails \in BOOLEAN :
         procs' = [procs EXCEPT ![p] =
            LET cid == SelectIdByWid(contacts, @.key)
            IN  IF fails \/ cid = 0 THEN AfterSaveContactMessage(@, FALSE)
                ELSE [@ EXCEPT !.contactId = cid, !.pc = "scm_upsert"]]
    /\ UNCHANGED dbVars
    /\ StoreFrame

\* INSERT INTO contact_messages ... ON CONFLICT(contact_id, user_id) DO UPDATE
SaveMessageUpsert(p) ==
    /\ procs[p].pc = "scm_upsert"
    /\ LET pr == [procs[p] EXCEPT !.writes = @ + 1]
           row == MessageRow(pr.contactId, pr.userId, pr.msg)
       IN  \E fails \in BOOLEAN :
             IF fails \/ MessageRowRejected(row)
             THEN /\ procs' = [procs EXCEPT ![p] = AfterSaveContactMessage(pr, FALSE)]
                  /\ UNCHANGED dbVars
             ELSE /\ contact_messages' = UpsertMessage(contact_messages, row)
                  /\ last_insert_rowid' =
                        IF Cardinality(contact_messages') > Cardinality(contact_messages)
                        THEN Cardinality(contact_messages') ELSE last_insert_rowid
                  /\ procs' = [procs EXCEPT ![p] = AfterSaveContactMessage(pr, TRUE)]
                  /\ UNCHANGED <<contacts, contacts_users>>
    /\ StoreFrame

-----------------------------------------------------------------------------
(* getContactByLink and checkNumber *)

\* WHERE c.link LIKE '%"contactId"%': ids of the matching contacts
LinkMatches(rows, contactId) ==
    {i \in 1..Len(rows) : SqlLikeQuoted(rows[i].link, contactId)}

\* c LEFT JOIN contacts_users cu ON c.id = cu.contact_id AND cu.user_id = ?
JoinedOverlay(cu, contactId, userId) ==
    IF HasContactUser(cu, contactId, userId)
    THEN CHOOSE r \in cu : r.contact_id = contactId /\ r.user_id = userId
    ELSE NoRec

\* JS `!!v`
NotNot(v) == IF Truthy(v) THEN JsTrue ELSE JsFalse

\* the record getContactByLink builds from rs.rows[0]
CachedRecord(row, cuRow) ==
    LET shownName == IF Truthy(Field(cuRow, "name")) THEN cuRow.name ELSE OrNull(row.name)
    IN  [there_is |-> JsTrue,
         data |-> [wid |-> OrNull(row.wid),
                   lid |-> OrNull(Field(cuRow, "lid")),
                   name |-> shownName,
                   phone |-> OrNull(row.phone),
                   phoneBR |-> OrNull(row.phoneBR),
                   there_is |-> JsTrue,
                   link |-> JSONParse(IF Truthy(row.link) THEN row.link ELSE <<"[", "]">>),
                   contact |-> [name |-> shownName,
                                shortName |-> OrNull(Field(cuRow, "short_name")),
                                pushname |-> OrNull(Field(cuRow, "pushname")),
                                verifiedName |-> OrNull(Field(cuRow, "verified_name")),
                                isBusiness |-> NotNot(Field(cuRow, "is_business")),
                                isEnterprise |-> NotNot(Field(cuRow, "is_enterprise")),
                                isContactSyncCompleted |->
                                    OrNull(Field(cuRow, "is_contact_sync_completed")),
                                syncToAddressbook |->
                                    NotNot(Field(cuRow, "sync_to_addressbook"))]]]

\* a lookup that never uses the stored record
CacheNeverHit(cached) == FALSE

\* checkNumber: `if (cached) return cached`
CacheHit(cached) == cached # NoRec

\* the lookup returned rec (NoRec: null)
AfterLookup(pr, rec) ==
    IF pr.op = "getContactByLink"
    THEN Finish(pr, IF rec = NoRec THEN Ret(NULL) ELSE rec)
    ELSE LET seen == [pr EXCEPT !.cached = rec]
         IN  IF CacheHit(rec) THEN Finish(seen, rec) ELSE [seen EXCEPT !.pc = "cn_query"]

\* getContactByLink: `const userId = await getDbUser(me); if (!userId) return null`
LookupAuth(p) ==
    /\ procs[p].pc = "gl_auth"
    /\ \E fails \in BOOLEAN : \E uid \in GetDbUser(users, me[p], fails) :
         LET pr == [procs[p] EXCEPT !.denied = @ \/ EntryDenied(procs[p], "gl_auth", uid)]
         IN  procs' = [procs EXCEPT ![p] =
                IF GateDenies(uid) THEN AfterLookup(pr, NoRec)
                ELSE [pr EXCEPT !.userId = uid, !.pc = "gl_select"]]
    /\ UNCHANGED dbVars
    /\ StoreFrame

\* SELECT c.*, cu.* ... WHERE c.link LIKE ? LIMIT 1 (no ORDER BY: any match)
LookupSelect(p) ==
    /\ procs[p].pc = "gl_select"
    /\ \E fails \in BOOLEAN :
         LET ids == LinkMatches(contacts, procs[p].key)
         IN  IF fails \/ ids = {}
             THEN procs' = [procs EXCEPT ![p] = AfterLookup(@, NoRec)]
             ELSE \E id \in ids :
                    procs' = [procs EXCEPT ![p] =
                        AfterLookup(@, CachedRecord(contacts[id],
                                        JoinedOverlay(contacts_users, id, procs[p].userId)))]
    /\ UNCHANGED dbVars
    /\ StoreFrame

\* phone && phone.length === 12 && phone.startsWith('55')
\*   ? phone.slice(0, 4) + '9' + phone.slice(4) : phone
InlinePhoneBR(phone) ==
    IF Truthy(phone) /\ Len(phone) = 12 /\ StartsWith55(phone)
    THEN SubSeq(phone, 1, 4) \o <<"9">> \o SubSeq(phone, 5, 12)
    ELSE phone

\* [a, b, c].filter((item) => item !== null)
FilterNull(arr) == SelectSeq(arr, LAMBDA e : e # NULL)

\* the record checkNumber returns when queryExists found the identifier;
\* result.wid is a Wid object, so `wid` is its _serialized
ExistsRecord(contactId, result, extraInfo) ==
    LET wid0 == OrNull(result.wid.serialized)
        lid == IF result.lid = NoRec THEN NULL ELSE OrNull(result.lid.serialized)
        phone0 == OrNull(result.wid.user)
        promote == ~Truthy(wid0) /\ Field(extraInfo, "phoneNumber") \notin {NULL, NoRec}
        wid == IF promote THEN extraInfo.phoneNumber.serialized ELSE wid0
        phone1 == IF promote THEN Field(extraInfo.phoneNumber, "id") ELSE phone0
        phone == IF ~Truthy(wid) /\ Truthy(lid) /\ ~Truthy(phone1)
                 THEN StripAtSuffix(contactId) ELSE phone1
        phoneBR == InlinePhoneBR(phone)
    IN  [there_is |-> JsTrue,
         data |-> [wid |-> wid, lid |-> lid, name |-> OrNull(Field(result, "name")),
                   phone |-> phone, phoneBR |-> phoneBR, there_is |-> JsTrue,
                   link |-> FilterNull(<<wid, phone, phoneBR>>),
                   contact |-> Field(extraInfo, "contact")]]

\* the record checkNumber returns when queryExists found nothing
NotExistsRecord(contactId) ==
    LET number == StripAtSuffix(contactId)
        phone == IF StartsWith55(number) /\ Len(number) = 13
                 THEN SubSeq(number, 1, 4) \o SubSeq(number, 6, 13) ELSE number
        phoneBR == IF StartsWith55(number) /\ Len(number) = 12
                   THEN SubSeq(number, 1, 4) \o <<"9">> \o SubSeq(number, 5, 12) ELSE number
    IN  [there_is |-> JsFalse,
         data |-> [wid |-> NULL, lid |-> NULL, name |-> NULL, phone |-> phone,
                   phoneBR |-> phoneBR, there_is |-> JsFalse,
                   link |-> FilterNull(<<NULL, phone, NULL, phoneBR>>)]]

\* the live collaborator: contact.queryExists(contactId), NoRec when the
\* identifier is not on WhatsApp
QueryExists(contactId) ==
    IF contactId \in {W1, P1}
    THEN [wid |-> [serialized |-> W1, user |-> P1], lid |-> [serialized |-> L1],
          name |-> NULL]
    ELSE NoRec

\* the live collaborator: contact.getPnLidEntry(wid)
GetPnLidEntry(wid) ==
    IF wid = W1
    THEN [lid |-> [serialized |-> L1], phoneNumber |-> [serialized |-> W1, user |-> P1],
          contact |-> EntryContact]
    ELSE [lid |-> NoRec, phoneNumber |-> NoRec, contact |-> NULL]

Thrown == [thrown |-> TRUE]

Unauthorized == [there_is |-> JsFalse, data |-> [unauthorized |-> JsTrue]]

\* checkNumber: `if (!(await isAuthenticatedUser(me))) return {unauthorized}`
CheckNumberAuth(p) ==
    /\ procs[p].pc = "cn_auth"
    /\ \E fails \in BOOLEAN :
         LET authed == IF IsAuthenticatedUser(users, me[p], fails) THEN JsTrue ELSE JsFalse
             pr == [procs[p] EXCEPT !.denied = @ \/ EntryDenied(procs[p], "cn_auth", authed)]
         IN  procs' = [procs EXCEPT ![p] =
                IF GateDenies(authed) THEN Finish(pr, Unauthorized)
                ELSE [pr EXCEPT !.pc = "gl_auth"]]
    /\ UNCHANGED dbVars
    /\ StoreFrame

\* `const result = await contact.queryExists(contactId)`; not found: the
\* not-exists record; a rejection of the live query leaves checkNumber
CheckNumberQuery(p) ==
    /\ procs[p].pc = "cn_query"
    /\ LET pr == [procs[p] EXCEPT !.live = @ + 1]
           result == QueryExists(pr.key)
       IN  \E throws \in BOOLEAN :
             procs' = [procs EXCEPT ![p] =
                IF throws THEN Finish(pr, Thrown)
                ELSE IF result = NoRec THEN Finish(pr, NotExistsRecord(pr.key))
                ELSE [pr EXCEPT !.pc = "cn_entry"]]
    /\ UNCHANGED dbVars
    /\ StoreFrame

\* `extraInfo = await contact.getPnLidEntry(wid)` and the returned record
CheckNumberEntry(p) ==
    /\ procs[p].pc = "cn_entry"
    /\ LET pr == [procs[p] EXCEPT !.live = @ + 1]
           result == QueryExists(pr.key)
       IN  \E throws \in BOOLEAN :
             procs' = [procs EXCEPT ![p] =
                IF throws THEN Finish(pr, Thrown)
                ELSE Finish(pr, ExistsRecord(pr.key, result,
                                             GetPnLidEntry(result.wid.serialized)))]
    /\ UNCHANGED dbVars
    /\ StoreFrame

LookupKeys == {W1, L1, P2}

CallGetContactByLink(p, seq) ==
    /\ CanCall(p, seq, 0)
    /\ \E id \in LookupKeys :
         procs' = [procs EXCEPT ![p] =
            [Started(p, "getContactByLink", NoRec, 0) EXCEPT !.pc = "gl_auth", !.key = id]]
    /\ UNCHANGED dbVars
    /\ StoreFrame

CallCheckNumber(p, seq) ==
    /\ CanCall(p, seq, 0)
    /\ \E id \in LookupKeys :
         procs' = [procs EXCEPT ![p] =
            [Started(p, "checkNumber", NoRec, 0) EXCEPT !.pc = "cn_auth", !.key = id]]
    /\ UNCHANGED dbVars
    /\ StoreFrame

-----------------------------------------------------------------------------
(* saveContactsBatch *)

BATCH_SIZE == 20

\* contacts.slice(i): every item from i to the end of the input
ChunkToEnd(list, i) == SubSeq(list, i + 1, Len(list))

\* contacts.slice(i, i + BATCH_SIZE), i counted from 0
Chunk(list, i) ==
    SubSeq(list, i + 1, IF i + BATCH_SIZE < Len(list) THEN i + BATCH_SIZE ELSE Len(list))

\* `const lid = contactData.contact_user?.lid || info.lid`
ItemLidOf(contactData) ==
    OrElse(Field(contactData.contact_user, "lid"), Field(contactData.contact, "lid"))

\* `if (!wid && !lid) continue`
Skipped(contactData) ==
    ~Truthy(Field(contactData.contact, "wid")) /\ ~Truthy(ItemLidOf(contactData))

\* args of the contacts_users statement of the batch
BatchOverlayArgs(contactData) ==
    LET c == contactData.contact_user
    IN  [lid |-> OrNull(ItemLidOf(contactData)),
         name |-> OrNull(Field(c, "name")),
         short_name |-> OrNull(Field(c, "shortName")),
         pushname |-> OrNull(Field(c, "pushname")),
         type |-> OrNull(Field(c, "type")),
         is_business |-> OrNull(Field(c, "isBusiness")),
         is_enterprise |-> OrNull(Field(c, "isEnterprise")),
         verified_name |-> OrNull(Field(c, "verifiedName")),
         is_contact_sync_completed |-> OrNull(Field(c, "isContactSyncCompleted")),
         sync_to_addressbook |-> OrNull(Field(c, "syncToAddressbook"))]

\* the statements one item pushes: none unless it has a wid
ItemStatements(contactData, userId) ==
    LET info == contactData.contact
        wid == Field(info, "wid")
    IN  IF Skipped(contactData) \/ ~Truthy(wid) THEN << >>
        ELSE <<[table |-> "contacts",
                row |-> ContactRow(wid, Field(info, "name"), Field(info, "phone"),
                                   Field(info, "phoneBR"), Field(info, "there_is"),
                                   JSONStringify(IF Field(info, "link") = NULL THEN << >>
                                                 ELSE info.link))]>>
             \o (IF contactData.contact_user \notin {NoRec, NULL}
                 THEN <<[table |-> "contacts_users", wid |-> wid, user_id |-> userId,
                         cols |-> BatchOverlayArgs(contactData)]>>
                 ELSE << >>)
             \o (IF contactData.lastMessage \notin {NoRec, NULL}
                 THEN <<[table |-> "contact_messages", wid |-> wid, user_id |-> userId,
                         msg |-> contactData.lastMessage]>>
                 ELSE << >>)

RECURSIVE ChunkStatements(_, _, _)
ChunkStatements(chunk, k, userId) ==
    IF k > Len(chunk) THEN << >>
    ELSE ItemStatements(chunk[k], userId) \o ChunkStatements(chunk, k + 1, userId)

Db(c, cu, cm, rowid) ==
    [contacts |-> c, contacts_users |-> cu, contact_messages |-> cm,
     last_insert_rowid |-> rowid, error |-> FALSE]

\* one statement of the batch; contact_id of the dependent rows comes from
\* (SELECT id FROM contacts WHERE wid = ? LIMIT 1)
ApplyStatement(db, st) ==
    IF st.table = "contacts"
    THEN IF ContactRowRejected(st.row) THEN [db EXCEPT !.error = TRUE]
         ELSE LET rows == UpsertContact(db.contacts, st.row)
              IN  [db EXCEPT !.contacts = rows,
                             !.last_insert_rowid =
                                IF Len(rows) > Len(db.contacts) THEN Len(rows) ELSE @]
    ELSE LET cid == SelectIdByWid(db.contacts, st.wid)
         IN  IF st.table = "contacts_users"
             THEN IF ContactIdRejected(cid) THEN [db EXCEPT !.error = TRUE]
                  ELSE LET cu == UpsertContactUser(db.contacts_users, cid, st.user_id,
                                                   WithAssignedAt(st.cols),
                                                   OverlaySetCols)
                       IN  [db EXCEPT !.contacts_users = cu,
                                      !.last_insert_rowid =
                                         IF Cardinality(cu) > Cardinality(db.contacts_users)
                                         THEN Cardinality(cu) ELSE @]
             ELSE LET row == MessageRow(cid, st.user_id, st.msg)
                  IN  IF MessageRowRejected(row) THEN [db EXCEPT !.error = TRUE]
                      ELSE LET cm == UpsertMessage(db.contact_messages, row)
                           IN  [db EXCEPT !.contact_messages = cm,
                                          !.last_insert_rowid =
                                             IF Cardinality(cm) > Cardinality(db.contact_messages)
                                             THEN Cardinality(cm) ELSE @]

\* statements 1..upTo applied in order, stopping at the first rejected one;
\* failAt > 0: the store fails the request at statement failAt
RECURSIVE ApplyStatements(_, _, _, _)
ApplyStatements(db, statements, k, failAt) ==
    IF k > Len(statements) THEN db
    ELSE IF k = failAt THEN [db EXCEPT !.error = TRUE]
    ELSE LET next == ApplyStatement(db, statements[k])
         IN  IF next.error THEN [db EXCEPT !.error = TRUE]
             ELSE ApplyStatements(next, statements, k + 1, failAt)

\* the statements sent one by one, outside a transaction: what was applied
\* before the failure stays
BatchWriteNoTx(db, statements, failAt) == ApplyStatements(db, statements, 1, failAt)

\* client.batch(statements, 'write'): one transaction, rolled back as a whole
\* when a statement fails
BatchWrite(db, statements, failAt) ==
    LET out == ApplyStatements(db, statements, 1, failAt)
    IN  IF out.error THEN [db EXCEPT !.error = TRUE] ELSE out

\* the loop stops at the first rejected chunk
StopAfterReject(i, n) == n

\* the catch of a rejected chunk falls through to `i += BATCH_SIZE`
ContinueAfterReject(i, n) == i + BATCH_SIZE

\* `for (let i = 0; i < contacts.length; i += BATCH_SIZE)`: the loop runs
\* without a store call over every chunk of no statement
RECURSIVE BatchLoop(_)
BatchLoop(pr) ==
    IF pr.i >= Len(pr.queue)
    THEN Finish(pr, [success |-> JsTrue, saved |-> pr.saved, failed |-> pr.failed])
    ELSE IF Len(ChunkStatements(Chunk(pr.queue, pr.i), 1, pr.userId)) > 0
         THEN [pr EXCEPT !.pc = "b_chunk"]
         ELSE BatchLoop([pr EXCEPT !.i = @ + BATCH_SIZE])

\* `const userId = await getDbUser(me); if (!userId)
\*  return {success: false, saved: 0, failed: contacts.length}`
BatchAuth(p) ==
    /\ procs[p].pc = "b_auth"
    /\ \E fails \in BOOLEAN : \E uid \in GetDbUser(users, me[p], fails) :
         LET pr == [procs[p] EXCEPT !.denied = @ \/ EntryDenied(procs[p], "b_auth", uid)]
         IN  procs' = [procs EXCEPT ![p] =
                IF GateDenies(uid)
                THEN Finish(pr, [success |-> JsFalse, saved |-> 0, failed |-> Len(pr.queue)])
                ELSE BatchLoop([pr EXCEPT !.userId = uid])]
    /\ UNCHANGED dbVars
    /\ StoreFrame

\* where the store fails a request of n statements: nowhere (0), at the
\* first statement, at the last one
FailPoints(n) == {0, 1, n}

\* `await client.batch(statements, 'write'); savedCount += chunk.length`
\* or, in the catch, `failedCount += chunk.length`
BatchChunk(p) ==
    /\ procs[p].pc = "b_chunk"
    /\ LET pr == procs[p]
           chunk == Chunk(pr.queue, pr.i)
           statements == ChunkStatements(chunk, 1, pr.userId)
       IN  \E failAt \in FailPoints(Len(statements)) :
             LET out == BatchWrite(Db(contacts, contacts_users, contact_messages,
                                      last_insert_rowid), statements, failAt)
                 sent == [pr EXCEPT !.writes = @ + 1,
                                    !.submitted = Append(@, [i |-> pr.i, ok |-> ~out.error]),
                                    !.partial = @ \/ (out.error /\ failAt > 1)]
             IN  /\ contacts' = out.contacts
                 /\ contacts_users' = out.contacts_users
                 /\ contact_messages' = out.contact_messages
                 /\ last_insert_rowid' = out.last_insert_rowid
                 /\ procs' = [procs EXCEPT ![p] =
                        IF out.error
                        THEN BatchLoop([sent EXCEPT !.failed = @ + Len(chunk),
                                                    !.i = ContinueAfterReject(pr.i, Len(pr.queue))])
                        ELSE BatchLoop([sent EXCEPT !.saved = @ + Len(chunk),
                                                    !.i = pr.i + BATCH_SIZE])]
    /\ StoreFrame

\* the number of wids the input items carry
WidCount(list) ==
    Cardinality({Field(list[k].contact, "wid") : k \in 1..Len(list)} \ {NULL})

SmallLists == {<< >>, <<ItemWid, ItemNone>>, <<ItemLid>>, <<ItemWid2, ItemLid>>}

\* input lists of more than one chunk: up to MaxRuns runs of one item each
MaxRuns == 2

RunLengths == {1, BATCH_SIZE}

RECURSIVE ConcatRuns(_, _)
ConcatRuns(runs, k) ==
    IF k > Len(runs) THEN << >>
    ELSE [j \in 1..runs[k][2] |-> runs[k][1]] \o ConcatRuns(runs, k + 1)

RunLists == {ConcatRuns(runs, 1) : runs \in SeqsUpTo(Items \X RunLengths, MaxRuns)}

CallSaveContactsBatch(p, seq, lists) ==
    /\ \E list \in lists :
         /\ CanCall(p, seq, WidCount(list))
         /\ procs' = [procs EXCEPT ![p] =
               [Started(p, "saveContactsBatch", NoRec, WidCount(list)) EXCEPT
                   !.pc = "b_auth", !.queue = list]]
    /\ UNCHANGED dbVars
    /\ StoreFrame

-----------------------------------------------------------------------------
(* syncAllContacts *)

\* `if (!(await isAuthenticatedUser(me))) return {success: false, error}`
SyncAuth(p) ==
    /\ procs[p].pc = "sy_auth"
    /\ \E fails \in BOOLEAN :
         LET authed == IF IsAuthenticatedUser(users, me[p], fails) THEN JsTrue ELSE JsFalse
             pr == [procs[p] EXCEPT !.denied = @ \/ EntryDenied(procs[p], "sy_auth", authed)]
         IN  procs' = [procs EXCEPT ![p] =
                IF GateDenies(authed)
                THEN Finish(pr, [success |-> JsFalse, error |-> <<"Unauthorized">>])
                ELSE [pr EXCEPT !.pc = "sy_fetch"]]
    /\ UNCHANGED dbVars
    /\ StoreFrame

\* `const contacts = await getAllContacts(options)`: the scan of the live
\* collaborator returns the contact list or throws into the outer catch
SyncFetch(p) ==
    /\ procs[p].pc = "sy_fetch"
    /\ LET pr == [procs[p] EXCEPT !.live = @ + 1]
       IN  \E throws \in BOOLEAN :
             procs' = [procs EXCEPT ![p] =
                IF throws
                THEN Finish(pr, [success |-> JsFalse, error |-> <<"Error">>])
                ELSE SyncLoop([pr EXCEPT !.i = 1])]
    /\ UNCHANGED dbVars
    /\ StoreFrame

CallSyncAllContacts(p, seq, lists) ==
    /\ \E list \in lists :
         /\ CanCall(p, seq, Len(list))
         /\ procs' = [procs EXCEPT ![p] =
               [Started(p, "syncAllContacts", NoRec, Len(list)) EXCEPT
                   !.pc = "sy_auth", !.queue = list]]
    /\ UNCHANGED dbVars
    /\ StoreFrame

-----------------------------------------------------------------------------
(* Entry points *)

CallSaveContact(p, seq, observations) ==
    /\ CanCall(p, seq, 1)
    /\ \E obs \in observations :
         procs' = [procs EXCEPT ![p] =
            [Started(p, "saveContact", obs, 1) EXCEPT
                !.pc = "sc_auth", !.info = obs.data, !.there_is = obs.there_is]]
    /\ UNCHANGED dbVars
    /\ StoreFrame

CallSaveFullContact(p, seq, items) ==
    /\ CanCall(p, seq, 1)
    /\ \E item \in items :
         procs' = [procs EXCEPT ![p] =
            [Started(p, "saveFullContact", item, 1) EXCEPT
                !.pc = "sc_auth", !.info = ContactInfo(item),
                !.there_is = Field(item.contact, "there_is"), !.msg = item.lastMessage]]
    /\ UNCHANGED dbVars
    /\ StoreFrame

CallSaveContactMessage(p, seq, wids, messages) ==
    /\ CanCall(p, seq, 0)
    /\ \E wid \in wids, m \in messages :
         procs' = [procs EXCEPT ![p] =
            [Started(p, "saveContactMessage", NoRec, 0) EXCEPT
                !.pc = "scm_auth", !.key = wid, !.msg = m]]
    /\ UNCHANGED dbVars
    /\ StoreFrame

\* the caller applies the observation it has just saved a second time
RepeatSave(p) ==
    /\ procs[p].pc = "done"
    /\ procs[p].op \in {"saveContact", "saveFullContact"}
    /\ procs[p].result = Ret(JsTrue)
    /\ ~procs[p].repeat
    /\ Len(contacts) + 1 <= MaxContacts
    /\ procs' = [procs EXCEPT ![p] =
          [@ EXCEPT !.pc = "sc_auth", !.repeat = TRUE, !.result = NoRec,
                    !.userId = NULL, !.contactId = 0, !.denied = FALSE,
                    !.writes = 0, !.live = 0, !.created = 0,
                    !.len0 = Len(contacts), !.cu0 = Cardinality(contacts_users)]]
    /\ UNCHANGED dbVars
    /\ StoreFrame

\* the call returns to its caller
Return(p) ==
    /\ procs[p].pc = "done"
    /\ procs' = [procs EXCEPT ![p] = IdleProc]
    /\ UNCHANGED dbVars
    /\ StoreFrame

-----------------------------------------------------------------------------
(* Statements run on the store by hand, and the clock *)

\* time passes
Tick ==
    /\ now < MaxNow
    /\ now' = now + 1
    /\ UNCHANGED <<dbVars, users, me, procs, aSession, aOut, client>>

\* soft delete of the row of (the contact of wid, userId)
SoftDelete(wid, userId) ==
    /\ HasContactUser(contacts_users, SelectIdByWid(contacts, wid), userId)
    /\ contacts_users' = UpdateContactUserWhere(contacts_users,
                            SelectIdByWid(contacts, wid), userId,
                            [r \in contacts_users |-> SetDeleted(r)])
    /\ UNCHANGED <<contacts, contact_messages, last_insert_rowid, procs>>
    /\ StoreFrame

\* restore of the deleted row of (the contact of wid, userId)
Restore(wid, userId) ==
    /\ \E r \in V_contacts_users_deleted(contacts_users) :
          r.contact_id = SelectIdByWid(contacts, wid) /\ r.user_id = userId
    /\ contacts_users' = UpdateContactUserWhere(contacts_users,
                            SelectIdByWid(contacts, wid), userId,
                            [r \in contacts_users |-> SetRestored(r)])
    /\ UNCHANGED <<contacts, contact_messages, last_insert_rowid, procs>>
    /\ StoreFrame

-----------------------------------------------------------------------------
(* getAllContacts: formatPhoneBR *)

\* phone.replace(/^55/, '')
StripLeading55(phone) ==
    IF StartsWith55(phone) THEN SubSeq(phone, 3, Len(phone)) ELSE phone

\* formatPhoneBR without the test of the first subscriber digit
FormatPhoneBRAnyLead(phone) ==
    IF ~Truthy(phone) \/ Len(phone) < 10 THEN phone
    ELSE LET cleanPhone == StripLeading55(phone)
             ddd == SubSeq(cleanPhone, 1, 2)
             number == SubSeq(cleanPhone, 3, Len(cleanPhone))
         IN  IF Len(cleanPhone) \in {10, 11}
             THEN IF Len(number) = 8
                  THEN <<"5", "5">> \o ddd \o <<"9">> \o number
                  ELSE <<"5", "5">> \o cleanPhone
             ELSE phone

\* formatPhoneBR(phone) of getAllContacts
FormatPhoneBR(phone) ==
    IF ~Truthy(phone) \/ Len(phone) < 10 THEN phone
    ELSE LET cleanPhone == StripLeading55(phone)
             ddd == SubSeq(cleanPhone, 1, 2)
             number == SubSeq(cleanPhone, 3, Len(cleanPhone))
         IN  IF Len(cleanPhone) \in {10, 11}
             THEN IF Len(number) = 8 /\ number[1] \in {"6", "7", "8", "9"}
                  THEN <<"5", "5">> \o ddd \o <<"9">> \o number
                  ELSE <<"5", "5">> \o cleanPhone
             ELSE phone

-----------------------------------------------------------------------------
(* getAllContacts: labels *)

\* the ids labelMap holds (the labels WhatsApp lists)
LabelMapIds == {"18", "19"}

\* one entry of an overlay's labels; name and color come from labelMap
LabelEntry(labelId) ==
    [label_id |-> labelId, label_name |-> <<"name", labelId>>,
     label_color |-> <<"color", labelId>>]

KnownLabel(labelId) == labelId \in LabelMapIds

\* processLabels(model), on model.labels
ProcessLabels(includeLabels, labels) ==
    IF ~includeLabels THEN << >>
    ELSE LET contactLabels == IF labels = NULL THEN << >> ELSE labels
             known == SelectSeq(contactLabels, KnownLabel)
         IN  [k \in 1..Len(known) |-> LabelEntry(known[k])]

\* phase 2: the labels of the lid model merged into the overlay's labels;
\* existingIds is computed once, before the loop over lidLabels
MergeLabels(includeLabels, existing, lidModelLabels) ==
    IF includeLabels /\ lidModelLabels # NULL /\ Len(lidModelLabels) > 0
    THEN LET lidLabels == ProcessLabels(includeLabels, lidModelLabels)
             existingIds == {existing[k].label_id : k \in 1..Len(existing)}
             Fresh(label) == label.label_id \notin existingIds
         IN  existing \o SelectSeq(lidLabels, Fresh)
    ELSE existing

-----------------------------------------------------------------------------
(* Specifications *)

Init ==
    /\ users = DefaultUsers
    /\ contacts = << >>
    /\ contacts_users = {}
    /\ contact_messages = {}
    /\ last_insert_rowid = 0
    /\ me \in {<<Session1, s>> : s \in {Session3, AbsentSession}}
    /\ procs = [p \in Procs |-> IdleProc]
    /\ aSession = AbsentSession
    /\ aOut = NoRec
    /\ client = DefaultClient
    /\ now = 0

\* one caller at a time
Next ==
    \E p \in Procs :
        \/ CallSaveContact(p, TRUE, Observations)
        \/ CallSaveFullContact(p, TRUE, Items)
        \/ CallSaveContactMessage(p, TRUE, {W1}, {DocMessage})
        \/ CallGetContactByLink(p, TRUE)
        \/ CallCheckNumber(p, TRUE)
        \/ CallSaveContactsBatch(p, TRUE, SmallLists)
        \/ CallSyncAllContacts(p, TRUE, SmallLists)
        \/ SaveContactAuth(p)
        \/ SaveContactUpsert(p)
        \/ SaveContactSelectId(p)
        \/ SaveContactLookup(p)
        \/ SaveContactUpdate(p)
        \/ SaveContactInsert(p)
        \/ SaveContactRowid(p)
        \/ SaveContactUser(p)
        \/ SaveMessageAuth(p)
        \/ SaveMessageSelect(p)
        \/ SaveMessageUpsert(p)
        \/ LookupAuth(p)
        \/ LookupSelect(p)
        \/ CheckNumberAuth(p)
        \/ CheckNumberQuery(p)
        \/ CheckNumberEntry(p)
        \/ BatchAuth(p)
        \/ BatchChunk(p)
        \/ SyncAuth(p)
        \/ SyncFetch(p)
        \/ RepeatSave(p)
        \/ Return(p)

Spec == Init /\ [][Next]_vars

\* saveContactsBatch alone, on lists of several chunks
BatchInit == Init

BatchNext ==
    \E p \in Procs :
        \/ CallSaveContactsBatch(p, TRUE, RunLists)
        \/ BatchAuth(p)
        \/ BatchChunk(p)
        \/ Return(p)

BatchSpec == BatchInit /\ [][BatchNext]_vars

\* the writers, two callers interleaved at every store call
ConcObservations == {ObsWid, ObsLid, ObsNone}

ConcItems == {ItemWid}

ConcLists == {<<ItemWid, ItemNone>>, <<ItemWid2, ItemLid>>}

ConcInit ==
    /\ users = DefaultUsers
    /\ contacts = << >>
    /\ contacts_users = {}
    /\ contact_messages = {}
    /\ last_insert_rowid = 0
    /\ me = <<Session1, Session2>>
    /\ procs = [p \in Procs |-> IdleProc]
    /\ aSession = AbsentSession
    /\ aOut = NoRec
    /\ client = DefaultClient
    /\ now = 0

ConcNext ==
    \E p \in Procs :
        \/ CallSaveContact(p, FALSE, ConcObservations)
        \/ CallSaveFullContact(p, FALSE, ConcItems)
        \/ CallSaveContactsBatch(p, FALSE, ConcLists)
        \/ SaveContactAuth(p)
        \/ SaveContactUpsert(p)
        \/ SaveContactSelectId(p)
        \/ SaveContactLookup(p)
        \/ SaveContactUpdate(p)
        \/ SaveContactInsert(p)
        \/ SaveContactRowid(p)
        \/ SaveContactUser(p)
        \/ SaveMessageAuth(p)
        \/ SaveMessageSelect(p)
        \/ SaveMessageUpsert(p)
        \/ BatchAuth(p)
        \/ BatchChunk(p)
        \/ Return(p)

ConcSpec == ConcInit /\ [][ConcNext]_vars

\* saveContact alone, two callers of the same user interleaved at every
\* store call
RaceObservations == {ObsWid, ObsLid}

RaceInit ==
    /\ users = DefaultUsers
    /\ contacts = << >>
    /\ contacts_users = {}
    /\ contact_messages = {}
    /\ last_insert_rowid = 0
    /\ me = <<Session1, Session1>>
    /\ procs = [p \in Procs |-> IdleProc]
    /\ aSession = AbsentSession
    /\ aOut = NoRec
    /\ client = DefaultClient
    /\ now = 0

RaceNext ==
    \E p \in Procs :
        \/ CallSaveContact(p, FALSE, RaceObservations)
        \/ SaveContactAuth(p)
        \/ SaveContactUpsert(p)
        \/ SaveContactSelectId(p)
        \/ SaveContactLookup(p)
        \/ SaveContactUpdate(p)
        \/ SaveContactInsert(p)
        \/ SaveContactRowid(p)
        \/ SaveContactUser(p)
        \/ Return(p)

RaceSpec == RaceInit /\ [][RaceNext]_vars

\* the auth gate alone, on bounded users / profiles and session identities
MaxPhoneLen == 2
MaxPhones == 1
MaxStrLen == 3

PhoneChars == {"5", "1"}

SessionChars == PhoneChars \cup {"+"}

StoredPhones == SeqsUpTo(PhoneChars, MaxPhoneLen)

UserTables ==
    {<< [id |-> <<"u1">>, is_active |-> a, phone |-> ph, wa_phones |-> wp],
        [id |-> <<"u2">>, is_active |-> FALSE, phone |-> <<"5">>,
         wa_phones |-> JSONStringify(<< <<"1">> >>)] >> :
        a \in BOOLEAN,
        ph \in {NULL} \cup StoredPhones,
        wp \in {NULL} \cup {JSONStringify(l) : l \in SeqsUpTo(StoredPhones \ {<< >>}, MaxPhones)}}

SessionInputs ==
    {AbsentSession}
        \cup {StrSession(s) : s \in SeqsUpTo(SessionChars, MaxStrLen)}
        \cup {WidSession(<<"5", "1", "@c.us">>, <<"5", "1">>),
              WidSession(NULL, <<"5">>), WidSession(NULL, NULL)}

AuthInit ==
    /\ users \in UserTables
    /\ aSession \in SessionInputs
    /\ aOut = NoRec
    /\ contacts = << >>
    /\ contacts_users = {}
    /\ contact_messages = {}
    /\ last_insert_rowid = 0
    /\ me = <<AbsentSession, AbsentSession>>
    /\ procs = [p \in Procs |-> IdleProc]
    /\ client = DefaultClient
    /\ now = 0

AuthFrame == UNCHANGED <<dbVars, users, me, procs, aSession, client, now>>

CallIsAuthenticatedUser ==
    /\ aOut = NoRec
    /\ \E fails \in BOOLEAN :
         aOut' = [fn |-> "isAuthenticatedUser", fails |-> fails,
                  accepted |-> IsAuthenticatedUser(users, aSession, fails),
                  id |-> NULL]
    /\ AuthFrame

CallGetDbUser ==
    /\ aOut = NoRec
    /\ \E fails \in BOOLEAN : \E uid \in GetDbUser(users, aSession, fails) :
         aOut' = [fn |-> "getDbUser", fails |-> fails,
                  accepted |-> uid # NULL, id |-> uid]
    /\ AuthFrame

AuthNext == CallIsAuthenticatedUser \/ CallGetDbUser

AuthSpec == AuthInit /\ [][AuthNext]_vars

\* the phoneBR derivations alone, on bounded phones: an optional country
\* code, an area code, and a subscriber part of a first digit and a tail
MaxTail == 8

PhonePrefixes == {<< >>, <<"5", "5">>}

AreaCodes == {<<"5", "1">>, <<"5", "5">>}

LeadDigits == {"2", "5", "6", "9"}

PhoneInputs ==
    {NULL, << >>}
        \cup {prefix \o ddd \o <<lead>> \o [k \in 1..n |-> "7"] :
                 prefix \in PhonePrefixes, ddd \in AreaCodes,
                 lead \in LeadDigits, n \in 0..MaxTail}

PhoneInit ==
    /\ aSession \in {[kind |-> "phone", phone |-> ph] : ph \in PhoneInputs}
    /\ aOut = NoRec
    /\ users = DefaultUsers
    /\ contacts = << >>
    /\ contacts_users = {}
    /\ contact_messages = {}
    /\ last_insert_rowid = 0
    /\ me = <<AbsentSession, AbsentSession>>
    /\ procs = [p \in Procs |-> IdleProc]
    /\ client = DefaultClient
    /\ now = 0

\* the outcome record with the value of one more derivation
WithOutcome(out, key, value) ==
    [k \in DOMAIN out \cup {key} |-> IF k = key THEN value ELSE out[k]]

\* getAllContacts: `const phoneBR = formatPhoneBR(number)`
CallFormatPhoneBR ==
    /\ "formatPhoneBR" \notin DOMAIN aOut
    /\ aOut' = WithOutcome(aOut, "formatPhoneBR", FormatPhoneBR(aSession.phone))
    /\ AuthFrame

\* checkNumber, identifier found: the inline phoneBR of `phone`
CallInlinePhoneBR ==
    /\ "inline" \notin DOMAIN aOut
    /\ aOut' = WithOutcome(aOut, "inline", InlinePhoneBR(aSession.phone))
    /\ AuthFrame

\* checkNumber, identifier not found: data.phoneBR of the returned record
CallNotExistsPhoneBR ==
    /\ "notExists" \notin DOMAIN aOut
    /\ aSession.phone # NULL
    /\ aOut' = WithOutcome(aOut, "notExists", NotExistsRecord(aSession.phone).data.phoneBR)
    /\ AuthFrame

PhoneNext == CallFormatPhoneBR \/ CallInlinePhoneBR \/ CallNotExistsPhoneBR

PhoneSpec == PhoneInit /\ [][PhoneNext]_vars

\* getDbUser run twice on the same store state, on users / profiles where
\* the second user is active as well (profiles.phone and wa_phones carry no
\* uniqueness constraint)
SharedUserTables == {[t EXCEPT ![2].is_active = TRUE] : t \in UserTables}

SharedInit ==
    /\ users \in SharedUserTables
    /\ aSession \in SessionInputs
    /\ aOut = NoRec
    /\ contacts = << >>
    /\ contacts_users = {}
    /\ contact_messages = {}
    /\ last_insert_rowid = 0
    /\ me = <<AbsentSession, AbsentSession>>
    /\ procs = [p \in Procs |-> IdleProc]
    /\ client = DefaultClient
    /\ now = 0

\* the second run of getDbUser for the same session identity
CallGetDbUserAgain ==
    /\ "id" \in DOMAIN aOut
    /\ "again" \notin DOMAIN aOut
    /\ \E fails \in BOOLEAN : \E uid \in GetDbUser(users, aSession, fails) :
         aOut' = WithOutcome(WithOutcome(aOut, "again", uid), "againFails", fails)
    /\ AuthFrame

SharedNext == CallGetDbUser \/ CallGetDbUserAgain

SharedSpec == SharedInit /\ [][SharedNext]_vars

\* the message writers, two callers of the same user interleaved at every
\* store call: the batch creates the contact and its message, and
\* saveContactMessage replaces the message
MsgMessages == {TextMessage, OlderTextMessage, DocMessage, ImageMessage}

MsgLists ==
    {<<ItemWid>>,
     <<ItemWid, [ItemWid EXCEPT !.lastMessage = OlderTextMessage]>>,
     <<[ItemWid EXCEPT !.lastMessage = ImageMessage]>>}

MsgInit ==
    /\ users = DefaultUsers
    /\ contacts = << >>
    /\ contacts_users = {}
    /\ contact_messages = {}
    /\ last_insert_rowid = 0
    /\ me = <<Session1, Session1>>
    /\ procs = [p \in Procs |-> IdleProc]
    /\ aSession = AbsentSession
    /\ aOut = NoRec
    /\ client = DefaultClient
    /\ now = 0

MsgNext ==
    \E p \in Procs :
        \/ CallSaveContactMessage(p, FALSE, {W1}, MsgMessages)
        \/ CallSaveContactsBatch(p, FALSE, MsgLists)
        \/ SaveMessageAuth(p)
        \/ SaveMessageSelect(p)
        \/ SaveMessageUpsert(p)
        \/ BatchAuth(p)
        \/ BatchChunk(p)
        \/ Return(p)

MsgSpec == MsgInit /\ [][MsgNext]_vars

\* every entry point, one caller at a time, in a process started with or
\* without DB_URL and DB_TOKEN
EnvInit ==
    /\ users = DefaultUsers
    /\ contacts = << >>
    /\ contacts_users = {}
    /\ contact_messages = {}
    /\ last_insert_rowid = 0
    /\ me = <<Session1, AbsentSession>>
    /\ procs = [p \in Procs |-> IdleProc]
    /\ aSession = AbsentSession
    /\ aOut = NoRec
    /\ \E DB_URL \in {NULL, EnvUrl}, DB_TOKEN \in {NULL, EnvToken} :
          client \in CreateClient(DB_URL, DB_TOKEN)
    /\ now = 0

EnvSpec == EnvInit /\ [][Next]_vars

\* saveContact by two users, one call at a time, the soft delete and restore
\* statements, and the clock
DeleteObservations == {ObsWid, ObsWidLid}

DeleteInit == ConcInit

DeleteNext ==
    \/ Tick
    \/ \E userId \in {<<"u1">>, <<"u2">>} :
          SoftDelete(W1, userId) \/ Restore(W1, userId)
    \/ \E p \in Procs :
          \/ CallSaveContact(p, TRUE, DeleteObservations)
          \/ SaveContactAuth(p)
          \/ SaveContactUpsert(p)
          \/ SaveContactSelectId(p)
          \/ SaveContactUser(p)
          \/ Return(p)

DeleteSpec == DeleteInit /\ [][DeleteNext]_vars

\* saveContact and saveFullContact applied and applied again, one call at a
\* time, while the clock advances
ReapplyObservations == {ObsWid, ObsLid}

ReapplyItems == {ItemWid}

ReapplyInit == ConcInit

ReapplyNext ==
    \/ Tick
    \/ \E p \in Procs :
          \/ CallSaveContact(p, TRUE, ReapplyObservations)
          \/ CallSaveFullContact(p, TRUE, ReapplyItems)
          \/ SaveContactAuth(p)
          \/ SaveContactUpsert(p)
          \/ SaveContactSelectId(p)
          \/ SaveContactLookup(p)
          \/ SaveContactUpdate(p)
          \/ SaveContactInsert(p)
          \/ SaveContactRowid(p)
          \/ SaveContactUser(p)
          \/ SaveMessageAuth(p)
          \/ SaveMessageSelect(p)
          \/ SaveMessageUpsert(p)
          \/ RepeatSave(p)
          \/ Return(p)

ReapplySpec == ReapplyInit /\ [][ReapplyNext]_vars

\* one sync of a list of getAllContacts into the empty store, item by item
\* (syncAllContacts) or in one batch (saveContactsBatch)
ScanItem2 ==
    [contact |-> [wid |-> W2, name |-> <<"Bob">>, phone |-> P2, phoneBR |-> P2,
                  there_is |-> JsTrue, link |-> <<W2, P2, P2>>],
     contact_user |-> [ScanContactUser(NULL) EXCEPT !.name = <<"Bob">>],
     lastMessage |-> NoRec]

ScanLists == {<<ItemWid>>, <<ScanItem2>>, <<ItemWid, ScanItem2>>, <<ScanItem2, ItemWid>>}

ScanInit ==
    /\ users = DefaultUsers
    /\ contacts = << >>
    /\ contacts_users = {}
    /\ contact_messages = {}
    /\ last_insert_rowid = 0
    /\ me = <<Session1, Session1>>
    /\ procs = [p \in Procs |-> IdleProc]
    /\ aSession = AbsentSession
    /\ aOut = NoRec
    /\ client = DefaultClient
    /\ now = 0

ScanNext ==
    \E p \in Procs :
        \/ CallSyncAllContacts(p, TRUE, ScanLists)
        \/ CallSaveContactsBatch(p, TRUE, ScanLists)
        \/ SyncAuth(p)
        \/ SyncFetch(p)
        \/ SaveContactAuth(p)
        \/ SaveContactUpsert(p)
        \/ SaveContactSelectId(p)
        \/ SaveContactUser(p)
        \/ SaveMessageAuth(p)
        \/ SaveMessageSelect(p)
        \/ SaveMessageUpsert(p)
        \/ BatchAuth(p)
        \/ BatchChunk(p)

ScanSpec == ScanInit /\ [][ScanNext]_vars

\* every writer of contacts_users for one contact of one user, one call at a
\* time, with the soft delete and restore statements and the clock
ResyncInit == ScanInit

ResyncNext ==
    \/ Tick
    \/ SoftDelete(W1, <<"u1">>)
    \/ Restore(W1, <<"u1">>)
    \/ \E p \in Procs :
          \/ CallSaveContact(p, TRUE, {ObsWid})
          \/ CallSaveFullContact(p, TRUE, {ItemWid})
          \/ CallSaveContactsBatch(p, TRUE, {<<ItemWid>>})
          \/ SaveContactAuth(p)
          \/ SaveContactUpsert(p)
          \/ SaveContactSelectId(p)
          \/ SaveContactUser(p)
          \/ SaveMessageAuth(p)
          \/ SaveMessageSelect(p)
          \/ SaveMessageUpsert(p)
          \/ BatchAuth(p)
          \/ BatchChunk(p)
          \/ Return(p)

ResyncSpec == ResyncInit /\ [][ResyncNext]_vars

\* the label steps of getAllContacts alone, on bounded label lists of the
\* contact model and of the lid model
MaxLabels == 2

ModelLabelIds == {"18", "19", "20"}

ModelLabels ==
    {NULL} \cup UNION {[1..n -> ModelLabelIds] : n \in 0..MaxLabels}

LabelInit ==
    /\ aSession \in {[kind |-> "labels", includeLabels |-> b,
                      labels |-> l, lidLabels |-> ll] :
                        b \in BOOLEAN, l \in ModelLabels, ll \in ModelLabels}
    /\ aOut = NoRec
    /\ users = DefaultUsers
    /\ contacts = << >>
    /\ contacts_users = {}
    /\ contact_messages = {}
    /\ last_insert_rowid = 0
    /\ me = <<AbsentSession, AbsentSession>>
    /\ procs = [p \in Procs |-> IdleProc]
    /\ client = DefaultClient
    /\ now = 0

\* phase 1: contact_user.labels = processLabels(model)
CallProcessLabels ==
    /\ "labels" \notin DOMAIN aOut
    /\ aOut' = WithOutcome(aOut, "labels",
                   ProcessLabels(aSession.includeLabels, aSession.labels))
    /\ AuthFrame

\* phase 2: the label merge, for a contact whose lid has a model in lidMap
CallMergeLabels ==
    /\ "labels" \in DOMAIN aOut
    /\ "merged" \notin DOMAIN aOut
    /\ aOut' = WithOutcome(aOut, "merged",
                   MergeLabels(aSession.includeLabels, aOut.labels,
                               aSession.lidLabels))
    /\ AuthFrame

LabelNext == CallProcessLabels \/ CallMergeLabels

LabelSpec == LabelInit /\ [][LabelNext]_vars

-----------------------------------------------------------------------------
(* Properties *)

\* C2: applying saveContact / saveFullContact a second time with the same
\* observation by the same user adds no Contact row and no ContactUser row,
\* whatever the shape of the observation (wid, lid only, neither).
C2_SecondSaveAddsNoRow ==
    \A p \in Procs :
        (procs[p].pc = "done" /\ procs[p].repeat /\ procs[p].result = Ret(JsTrue))
            => /\ Len(contacts) = procs[p].len0
               /\ Cardinality(contacts_users) = procs[p].cu0

\* the calling user recorded info.lid on a Contact without wid, and no
\* Contact has the wid or the phone the observation now carries
OrphanPending(p) ==
    LET pr == procs[p]
    IN  /\ pr.pc = "sc_upsert"
        /\ Truthy(Field(pr.info, "lid"))
        /\ \E r \in contacts_users :
              /\ r.user_id = pr.userId
              /\ r.lid = pr.info.lid
              /\ contacts[r.contact_id].wid = NULL
        /\ \A i \in 1..Len(contacts) :
              contacts[i].wid # pr.info.wid /\ contacts[i].phone # pr.info.phone

\* C3: a saveContact that resolves an already recorded lid-only Contact to
\* a wid / phone no Contact has yet updates that Contact row and creates no
\* second Contact row.
C3_OrphanPromotedInPlace ==
    [][\A p \in Procs : OrphanPending(p) => Len(contacts') = Len(contacts)]_vars

\* checkNumber resolved the identifier through the live collaborator
ResolvedLive(p) ==
    /\ procs[p].op = "checkNumber"
    /\ procs[p].pc = "done"
    /\ procs[p].cached = NoRec
    /\ Field(procs[p].result, "there_is") = JsTrue

\* C4: when checkNumber misses in storage and the live collaborator reports
\* the identifier, the record is in the store when checkNumber returns, so
\* the next lookup of the identifier is served from storage.
C4_LiveResultWrittenThrough ==
    \A p \in Procs : ResolvedLive(p) => LinkMatches(contacts, procs[p].key) # {}

\* C5: whenever the storage lookup of checkNumber returns a record, that
\* record is what checkNumber returns and the call issues no live query.
C5_HitSkipsLiveQuery ==
    \A p \in Procs :
        (procs[p].op = "checkNumber" /\ procs[p].cached # NoRec)
            => /\ procs[p].live = 0
               /\ procs[p].pc = "done"
               /\ procs[p].result = procs[p].cached

C5_Witness ==
    \E p \in Procs :
        /\ procs[p].op = "checkNumber"
        /\ procs[p].pc = "done"
        /\ procs[p].cached # NoRec
        /\ procs[p].result = procs[p].cached

\* the value each entry point returns to a caller it denies
DenialValue(pr) ==
    CASE pr.op = "checkNumber" -> Unauthorized
      [] pr.op = "syncAllContacts" -> [success |-> JsFalse, error |-> <<"Unauthorized">>]
      [] pr.op = "saveContactsBatch" ->
            [success |-> JsFalse, saved |-> 0, failed |-> Len(pr.queue)]
      [] pr.op = "getContactByLink" -> Ret(NULL)
      [] OTHER -> Ret(JsFalse)

\* C6: when the entry gate of a call does not resolve the session identity
\* to an active user (no matching active user, or the auth query failed),
\* the call ends at once with its denial value, without throwing, having
\* issued no store write and no live-collaborator query.
C6_DeniedCallDoesNothing ==
    \A p \in Procs :
        procs[p].denied
            => /\ procs[p].writes = 0
               /\ procs[p].live = 0
               /\ procs[p].pc = "done"
               /\ procs[p].result = DenialValue(procs[p])

\* a caller whose session matches an active user is denied because the auth
\* query failed, and a caller of no active user is denied
C6_Witness ==
    /\ procs[1].denied /\ procs[1].pc = "done" /\ procs[1].op = "checkNumber"
    /\ me[2] = Session3

\* an authorized saveContactsBatch has returned its summary
BatchDone(p) ==
    /\ procs[p].op = "saveContactsBatch"
    /\ procs[p].pc = "done"
    /\ ~procs[p].denied

\* the number of input items that carry a wid or a lid
Addressable(list) == Len(SelectSeq(list, LAMBDA c : ~Skipped(c)))

\* C1: the summary of an authorized saveContactsBatch has saved + failed
\* equal to the number of input items that carry a wid or a lid.
C1_CountsAddressableItems ==
    \A p \in Procs :
        BatchDone(p)
            => procs[p].result.saved + procs[p].result.failed
                  = Addressable(procs[p].queue)

\* the first index of every chunk of the list
ChunkStarts(list) == {i \in 0..(Len(list) - 1) : i % BATCH_SIZE = 0}

RECURSIVE RejectedItems(_, _, _)
RejectedItems(list, submitted, k) ==
    IF k > Len(submitted) THEN 0
    ELSE (IF submitted[k].ok THEN 0 ELSE Len(Chunk(list, submitted[k].i)))
         + RejectedItems(list, submitted, k + 1)

\* C8: in a finished saveContactsBatch every item of every rejected chunk is
\* counted failed, no chunk was submitted twice, and every chunk that has
\* statements was submitted, whatever happened to the chunks before it.
C8_RejectedChunkFailsAlone ==
    \A p \in Procs :
        BatchDone(p) =>
            LET pr == procs[p]
                sub == pr.submitted
            IN  /\ pr.result.failed = RejectedItems(pr.queue, sub, 1)
                /\ \A a, b \in 1..Len(sub) : a # b => sub[a].i # sub[b].i
                /\ {sub[a].i : a \in 1..Len(sub)}
                      = {i \in ChunkStarts(pr.queue) :
                            Len(ChunkStatements(Chunk(pr.queue, i), 1, pr.userId)) > 0}

\* a chunk was rejected and a later chunk was submitted after it
C8_Witness ==
    \E p \in Procs :
        /\ BatchDone(p)
        /\ \E a, b \in 1..Len(procs[p].submitted) :
              a < b /\ ~procs[p].submitted[a].ok /\ procs[p].result.failed > 0

\* the step of p is a chunk the store rejected
ChunkRejected(p) ==
    /\ procs[p].pc = "b_chunk"
    /\ Len(procs'[p].submitted) = Len(procs[p].submitted) + 1
    /\ ~procs'[p].submitted[Len(procs'[p].submitted)].ok

PhoneOfUser(u, digits) ==
    \/ u.phone = digits
    \/ u.wa_phones # NULL /\ \E k \in DOMAIN JSONParse(u.wa_phones) :
                                JSONParse(u.wa_phones)[k] = digits

\* C7: isAuthenticatedUser and getDbUser, given a session identity and an
\* auth query that succeeds, accept exactly when an active user has the
\* digits of the identity as its profile phone or as an element of its
\* wa_phones; getDbUser then returns the id of such a user.
C7_AcceptsExactPhoneOfActiveUser ==
    (aOut # NoRec /\ ~aOut.fails /\ ~SessionFalsy(aSession)) =>
        LET digits == StripNonDigits(PhoneStr(aSession))
            owners == {k \in DOMAIN users :
                          users[k].is_active /\ PhoneOfUser(users[k], digits)}
        IN  /\ aOut.accepted <=> owners # {}
            /\ aOut.fn = "getDbUser" /\ aOut.accepted
                  => \E k \in owners : users[k].id = aOut.id

\* a session identity with punctuation is accepted through the wa_phones of
\* an active user whose profile phone is another one
C7_Witness ==
    /\ aOut # NoRec /\ ~aOut.fails /\ aOut.accepted
    /\ aOut.fn = "getDbUser" /\ aOut.id = <<"u1">>
    /\ users[1].phone = <<"5">>
    /\ users[1].wa_phones = JSONStringify(<< <<"5", "1">> >>)
    /\ aSession = StrSession(<<"+", "5", "1">>)

\* C10: no two rows of contacts share a wid that is not NULL, whatever
\* interleaving of saveContact, saveFullContact and saveContactsBatch the
\* callers run.
C10_WidIsUnique ==
    \A i, j \in 1..Len(contacts) :
        (i # j /\ contacts[i].wid # NULL) => contacts[i].wid # contacts[j].wid

\* two callers upserted the same wid at the same time and one row holds it
C10_Witness ==
    /\ procs[1].pc = "sc_selid" /\ procs[2].pc = "sc_selid"
    /\ procs[1].info.wid = procs[2].info.wid
    /\ Cardinality({i \in 1..Len(contacts) : contacts[i].wid = procs[1].info.wid}) = 1

\* the Contact rows that hold the observation of caller p
RowsOfObservation(p) ==
    {i \in 1..Len(contacts) : contacts[i].link = JSONStringify(procs[p].info.link)}

\* C11: when two saveContact runs of the same user for the same observation
\* have both returned true, the store holds one Contact row for the
\* observation and one ContactUser row of the user on it, whatever the
\* interleaving of their store calls.
C11_RaceLeavesOneRow ==
    \A p, q \in Procs :
        (/\ p # q
         /\ procs[p].pc = "done" /\ procs[q].pc = "done"
         /\ procs[p].op = "saveContact" /\ procs[q].op = "saveContact"
         /\ procs[p].arg = procs[q].arg
         /\ procs[p].result = Ret(JsTrue) /\ procs[q].result = Ret(JsTrue))
            => /\ Cardinality(RowsOfObservation(p)) = 1
               /\ Cardinality({r \in contacts_users :
                                  /\ r.user_id = procs[p].userId
                                  /\ r.contact_id \in RowsOfObservation(p)}) = 1

\* C12: every value syncAllContacts returns is a summary with the fields
\* success, total, saved and failed, and the call is never left by a throw,
\* also when the caller is denied and when the contact scan raises.
C12_SyncAlwaysReturnsSummary ==
    \A p \in Procs :
        (procs[p].op = "syncAllContacts" /\ procs[p].pc = "done")
            => /\ procs[p].result # Thrown
               /\ {"success", "total", "saved", "failed"} \subseteq DOMAIN procs[p].result

\* C13: when saveContact has returned false after its call created a Contact
\* row, that row has a ContactUser row of the calling user.
C13_FailedSaveLeavesNoPartialContact ==
    \A p \in Procs :
        (/\ procs[p].op = "saveContact"
         /\ procs[p].pc = "done"
         /\ procs[p].result = Ret(JsFalse)
         /\ procs[p].created # 0)
            => HasContactUser(contacts_users, procs[p].created, procs[p].userId)

\* the fields of the record a lookup returns
RecordFields == {"wid", "lid", "name", "phone", "phoneBR", "there_is", "link", "contact"}

\* C14: the record an authorized checkNumber returns has the fields there_is
\* and data, and data has the fields wid, lid, name, phone, phoneBR,
\* there_is, link and contact, whether the record was served from storage,
\* resolved through the live collaborator, or reported as not existing.
C14_SameShapeOnEveryPath ==
    \A p \in Procs :
        (/\ procs[p].op = "checkNumber"
         /\ procs[p].pc = "done"
         /\ ~procs[p].denied
         /\ procs[p].result # Thrown)
            => /\ DOMAIN procs[p].result = {"there_is", "data"}
               /\ DOMAIN procs[p].result.data = RecordFields

\* C15: the phoneBR derived for a phone by formatPhoneBR (bulk scan) and by
\* the inline derivation of checkNumber is the same value.
C15_SamePhoneBROnEveryPath ==
    {"formatPhoneBR", "inline"} \subseteq DOMAIN aOut
        => aOut.formatPhoneBR = aOut.inline

\* the phone is the country code 55 followed by n local digits
CountryAndLocal(phone, n) == Truthy(phone) /\ Len(phone) = n + 2 /\ StartsWith55(phone)

\* C16: formatPhoneBR of 55 + 10 local digits whose subscriber part starts
\* with 6, 7, 8 or 9 is 55 + area code + 9 + subscriber; of 55 + 10 local
\* digits with another first subscriber digit, and of 55 + 11 local digits,
\* it is the phone unchanged.
C16_NinthDigitRule ==
    "formatPhoneBR" \in DOMAIN aOut =>
        LET phone == aSession.phone
        IN  /\ (CountryAndLocal(phone, 10) /\ phone[5] \in {"6", "7", "8", "9"})
                  => aOut.formatPhoneBR
                        = SubSeq(phone, 1, 4) \o <<"9">> \o SubSeq(phone, 5, 12)
            /\ (CountryAndLocal(phone, 10) /\ phone[5] \notin {"6", "7", "8", "9"})
                  => aOut.formatPhoneBR = phone
            /\ CountryAndLocal(phone, 11) => aOut.formatPhoneBR = phone

\* a 12-digit phone with subscriber 6... got the 9 inserted
C16_Witness ==
    /\ "formatPhoneBR" \in DOMAIN aOut
    /\ aSession.phone = <<"5", "5", "5", "1", "6", "7", "7", "7", "7", "7", "7", "7">>
    /\ aOut.formatPhoneBR = <<"5", "5", "5", "1", "9", "6", "7", "7", "7", "7", "7", "7", "7">>



\* C17: after the label merge of the enrichment phase, the labels of the
\* overlay hold at most one entry per label id, whatever the label lists of
\* the contact model and of the lid model contain.
C17_MergedLabelsUnique ==
    "merged" \in DOMAIN aOut
        => \A i, j \in 1..Len(aOut.merged) :
               aOut.merged[i].label_id = aOut.merged[j].label_id => i = j

\* the contact_messages rows of one (contact, user) pair
PairRows(cm, contactId, userId) ==
    {r \in cm : r.contact_id = contactId /\ r.user_id = userId}

\* the items of a chunk whose message statement is the last one of the
\* chunk for its wid
LastMessageItems(chunk) ==
    {k \in 1..Len(chunk) :
        /\ Len(ItemStatements(chunk[k], NULL)) > 0
        /\ chunk[k].lastMessage \notin {NoRec, NULL}
        /\ \A j \in (k + 1)..Len(chunk) :
              (Len(ItemStatements(chunk[j], NULL)) > 0
                  /\ chunk[j].lastMessage \notin {NoRec, NULL})
                 => chunk[j].contact.wid # chunk[k].contact.wid}

\* the message upserts the step of caller p has applied last for their
\* pairs: the upsert of saveContactMessage, or the message statements of a
\* committed chunk of saveContactsBatch
AppliedUpserts(p) ==
    IF /\ procs[p].op = "saveContactMessage"
       /\ procs[p].pc = "scm_upsert"
       /\ procs'[p].pc = "done"
       /\ procs'[p].result = Ret(JsTrue)
    THEN {[contact_id |-> procs[p].contactId, user_id |-> procs[p].userId,
           msg |-> procs[p].msg]}
    ELSE IF procs[p].pc = "b_chunk" /\ procs'[p].saved > procs[p].saved
    THEN LET chunk == Chunk(procs[p].queue, procs[p].i)
         IN  {[contact_id |-> SelectIdByWid(contacts', chunk[k].contact.wid),
               user_id |-> procs[p].userId, msg |-> chunk[k].lastMessage] :
                  k \in LastMessageItems(chunk)}
    ELSE {}

\* C18: every applied message upsert leaves exactly one contact_messages row
\* for its (contact, user) pair, equal to the snapshot it carries, whatever
\* row the pair had before; no other step changes contact_messages. So after
\* any sequence of upserts the row of a pair is the last applied snapshot.
C18_LastUpsertWins ==
    [][/\ \A p \in Procs : \A s \in AppliedUpserts(p) :
              PairRows(contact_messages', s.contact_id, s.user_id)
                  = {MessageRow(s.contact_id, s.user_id, s.msg)}
       /\ contact_messages' # contact_messages
              => \E p \in Procs : AppliedUpserts(p) # {}]_vars

\* both callers have stored a message for W1, the older text message last:
\* the row carries its timestamp_ms, lower than the one it replaced
C18_Witness ==
    /\ \A p \in Procs :
          /\ procs[p].op = "saveContactMessage"
          /\ procs[p].pc = "done"
          /\ procs[p].result = Ret(JsTrue)
    /\ procs[1].msg = TextMessage
    /\ procs[2].msg = OlderTextMessage
    /\ \E r \in contact_messages : r.timestamp_ms = OlderTextMessage.timestamp_ms
    /\ Cardinality(contact_messages) = 1

\* the body a snapshot is to be stored with: NULL unless it is a text message
TextOnlyBody(m) == IF m.type = <<"chat">> THEN m.body ELSE NULL

\* C19: a stored message snapshot has body NULL when its type is not text,
\* and its body unchanged when it is a text message.
C19_BodyOnlyForText ==
    [][\A p \in Procs : \A s \in AppliedUpserts(p) :
          \A r \in PairRows(contact_messages', s.contact_id, s.user_id) :
              r.body = TextOnlyBody(s.msg)]_vars

\* the running call of caller p has sent a request over client: it has left
\* its entry gate, whose getDbUser / isAuthenticatedUser executes its SELECT
\* unless the session identity is falsy
RequestIssued(p) ==
    /\ procs[p].op # "idle"
    /\ procs[p].pc # EntryGate[procs[p].op]
    /\ ~SessionFalsy(me[p])

\* C20: in a process started without DB_URL or without DB_TOKEN no call of
\* an engine operation issues a request to the store.
C20_NoRequestWithoutCredentials ==
    (client.url = << >> \/ client.authToken = << >>)
        => \A p \in Procs : ~RequestIssued(p)

\* the row of contacts_users with the key of r
SameKeyRows(cu, r) ==
    {x \in cu : x.contact_id = r.contact_id /\ x.user_id = r.user_id}

OverlayFields == OverlayCols \cup {"is_group", "wa_labels"}

Reapplying == \E p \in Procs : procs[p].repeat /\ procs[p].pc # "done"

\* C22: while an identical observation is applied again with saveContact /
\* saveFullContact, no step changes a stored column of a Contact, ContactUser
\* or ContactMessage row other than updated_at; assigned_at and created_at
\* keep their values.
C22_ReapplyChangesOnlyUpdatedAt ==
    [][Reapplying
        => /\ \A i \in 1..Len(contacts) : contacts'[i] = contacts[i]
           /\ \A r \in contacts_users : \E x \in SameKeyRows(contacts_users', r) :
                 \A c \in DOMAIN r \ {"updated_at"} : x[c] = r[c]
           /\ \A r \in contact_messages : r \in contact_messages']_vars

\* the loop of syncAllContacts is at a contact of the fetched list
InSyncLoop(pr) ==
    pr.op = "syncAllContacts" /\ pr.pc \notin {"sy_auth", "sy_fetch", "done"}

\* C23: syncAllContacts attempts the fetched contacts one by one in order:
\* while the loop is at contact i the call works on exactly that contact and
\* saved + failed = i - 1; the position only moves to the next contact, with
\* saved or failed incremented by one, also after a failure; and a summary
\* with success has saved + failed = total = the number of fetched contacts.
C23_EveryContactAttemptedOnce ==
    [][\A p \in Procs :
          LET pr == procs[p]
              nx == procs'[p]
          IN  /\ InSyncLoop(nx)
                   => /\ nx.i \in 1..Len(nx.queue)
                      /\ nx.info = ContactInfo(nx.queue[nx.i])
                      /\ nx.saved + nx.failed = nx.i - 1
              /\ (InSyncLoop(pr) /\ nx.op = pr.op /\ nx.i # pr.i)
                   => /\ nx.i = pr.i + 1
                      /\ <<nx.saved, nx.failed>> \in
                            {<<pr.saved + 1, pr.failed>>, <<pr.saved, pr.failed + 1>>}
              /\ (nx.op = "syncAllContacts" /\ nx.pc = "done"
                    /\ Field(nx.result, "success") = JsTrue)
                   => /\ nx.result.total = Len(nx.queue)
                      /\ nx.result.saved + nx.result.failed = nx.result.total]_vars

\* a sync of two contacts has ended with the first one failed and the second
\* one saved: the lid-only contact is stored, the one with a wid is not
C23_Witness ==
    \E p \in Procs :
        /\ procs[p].op = "syncAllContacts"
        /\ procs[p].pc = "done"
        /\ procs[p].queue = <<ItemWid2, ItemLid>>
        /\ procs[p].result = [success |-> JsTrue, total |-> 2, saved |-> 1, failed |-> 1]
        /\ \A i \in 1..Len(contacts) : contacts[i].wid # W2
        /\ \E i \in 1..Len(contacts) : contacts[i].wid = NULL

\* the contacts_users rows of the calling user of p that carry the lid of
\* the observation p is saving
OwnLidRows(p) ==
    {r \in contacts_users :
        r.user_id = procs[p].userId /\ SqlEq(r.lid, Field(procs[p].info, "lid"))}

\* C24: for a contact without wid, saveContact goes on with an existing
\* Contact exactly when the calling user has a ContactUser row with the lid
\* of the observation, and then with the Contact of such a row; the reused
\* Contact gets the name, phone, phoneBR, there_is and link of the
\* observation and no row is inserted; otherwise (no lid, or a lid recorded
\* only by another user) a new Contact with wid = NULL is inserted.
C24_LidReusedOnlyForOwnRow ==
    [][\A p \in Procs :
          LET pr == procs[p]
              nx == procs'[p]
          IN  /\ (pr.pc = "sc_lookup" /\ nx.pc # pr.pc)
                   => IF OwnLidRows(p) # {}
                      THEN /\ nx.pc = "sc_update"
                           /\ nx.contactId \in {r.contact_id : r \in OwnLidRows(p)}
                      ELSE nx.pc = "sc_insert"
              /\ (pr.pc = "sc_update" /\ nx.pc # pr.pc)
                   => /\ Len(contacts') = Len(contacts)
                      /\ contacts'[pr.contactId].name = OrNull(Field(pr.info, "name"))
                      /\ contacts'[pr.contactId].phone = OrNull(Field(pr.info, "phone"))
                      /\ contacts'[pr.contactId].phoneBR = OrNull(Field(pr.info, "phoneBR"))
                      /\ contacts'[pr.contactId].there_is = pr.there_is
                      /\ contacts'[pr.contactId].link = JSONStringify(pr.info.link)
              /\ (pr.pc = "sc_insert" /\ nx.pc = "sc_rowid")
                   => /\ OwnLidRows(p) = {} \/ ~Truthy(Field(pr.info, "lid"))
                      /\ Len(contacts') = Len(contacts) + 1
                      /\ contacts'[Len(contacts')].wid = NULL]_vars

\* the rows without their timestamps
NoTimestamps(cu) ==
    {[c \in DOMAIN r \ {"assigned_at", "created_at", "updated_at"} |-> r[c]] : r \in cu}

\* the items of the list that carry a last message
WithMessage(list) ==
    {k \in 1..Len(list) : list[k].lastMessage \notin {NoRec, NULL}}

\* a syncAllContacts into the empty store has saved every contact of its
\* list and every message of the list is stored
SyncedAll(p) ==
    /\ procs[p].op = "syncAllContacts"
    /\ procs[p].pc = "done"
    /\ procs[p].result = [success |-> JsTrue, total |-> Len(procs[p].queue),
                          saved |-> Len(procs[p].queue), failed |-> 0]
    /\ Cardinality(contact_messages) = Cardinality(WithMessage(procs[p].queue))

\* the store saveContactsBatch leaves when it writes the list into the empty
\* store for the user and no statement fails
BatchedAlone(list, userId) ==
    BatchWrite(Db(<< >>, {}, {}, 0), ChunkStatements(list, 1, userId), 0)

\* C25: with no call failing, a list of getAllContacts synced item by item
\* leaves the Contact, ContactUser and ContactMessage rows that
\* saveContactsBatch leaves for the same list, timestamps aside.
C25_ItemModeEqualsBatchMode ==
    \A p \in Procs :
        SyncedAll(p)
            => \A userId \in GetDbUser(users, me[p], FALSE) :
                  LET batched == BatchedAlone(procs[p].queue, userId)
                  IN  /\ contacts = batched.contacts
                      /\ NoTimestamps(contacts_users) = NoTimestamps(batched.contacts_users)
                      /\ contact_messages = batched.contact_messages

\* a JS value as the store holds it in a BOOLEAN column
StoredFlag(v) == IF v = JsTrue THEN JsOne ELSE IF v = JsFalse THEN JsZero ELSE v

\* the overlay columns and the key of contact_user each is to come from
ScanOverlayKeys == {"lid", "name", "pushname", "short_name", "verified_name",
                    "is_business", "is_enterprise", "is_contact_sync_completed",
                    "sync_to_addressbook", "is_group"}

\* a sync of a list of getAllContacts that reports every contact saved
ScanSaved(p) ==
    /\ procs[p].pc = "done"
    /\ \/ /\ procs[p].op = "syncAllContacts"
          /\ procs[p].result = [success |-> JsTrue, total |-> Len(procs[p].queue),
                                saved |-> Len(procs[p].queue), failed |-> 0]
       \/ /\ procs[p].op = "saveContactsBatch"
          /\ procs[p].result = [success |-> JsTrue, saved |-> Len(procs[p].queue),
                                failed |-> 0]

\* C26: after a list of getAllContacts has been synced with every contact
\* saved, the ContactUser row of each contact carries the overlay values of
\* its contact_user: lid, names, flags, group flag and labels.
C26_OverlayValuesStored ==
    \A p \in Procs :
        ScanSaved(p)
            => \A k \in 1..Len(procs[p].queue) :
                  LET item == procs[p].queue[k]
                  IN  \E r \in contacts_users :
                        /\ r.contact_id = SelectIdByWid(contacts, item.contact.wid)
                        /\ \A c \in ScanOverlayKeys :
                              r[c] = StoredFlag(item.contact_user[c])
                        /\ Len(item.contact_user.labels) > 0 => r.wa_labels # NULL

\* C27: when saveContactsBatch counts every item of its list as saved, each
\* item has its Contact row in the store (the row of its wid, or the row
\* with its link when it has no wid), and its ContactUser row when it
\* carries overlay data; an item with a lid and no wid included.
C27_SavedItemsAreStored ==
    \A p \in Procs :
        (BatchDone(p) /\ procs[p].result.saved = Len(procs[p].queue))
            => \A k \in 1..Len(procs[p].queue) :
                  LET item == procs[p].queue[k]
                  IN  \E i \in 1..Len(contacts) :
                        /\ IF Truthy(Field(item.contact, "wid"))
                           THEN contacts[i].wid = item.contact.wid
                           ELSE contacts[i].link = JSONStringify(item.contact.link)
                        /\ item.contact_user \notin {NoRec, NULL}
                              => \E r \in contacts_users :
                                    r.contact_id = i /\ r.user_id = procs[p].userId

\* C28: saveFullContact returns true for a contact with a lastMessage only
\* if the ContactMessage row of the (contact, user) pair holds that
\* snapshot.
C28_TrueOnlyWithMessageStored ==
    \A p \in Procs :
        (/\ procs[p].op = "saveFullContact"
         /\ procs[p].pc = "done"
         /\ procs[p].result = Ret(JsTrue)
         /\ procs[p].arg.lastMessage \notin {NoRec, NULL})
            => \E userId \in GetDbUser(users, me[p], FALSE) :
                  MessageRow(SelectIdByWid(contacts, Field(procs[p].arg.contact, "wid")),
                             userId, procs[p].arg.lastMessage) \in contact_messages

\* the rows of a table that belong to other users than those of the set
OthersRows(rows, userIds) == {r \in rows : r.user_id \notin userIds}

\* C29: a step of a save run for user U (saveContact, saveFullContact with
\* its saveContactMessage, saveContactsBatch) leaves every contacts_users row
\* and every contact_messages row of the other users as it was, also while
\* another user's save of the same Contact is running.
C29_OtherUsersRowsUntouched ==
    [][\A p \in Procs :
          procs'[p] # procs[p]
            => LET own == GetDbUser(users, me[p], FALSE)
               IN  /\ OthersRows(contacts_users', own) = OthersRows(contacts_users, own)
                   /\ OthersRows(contact_messages', own)
                         = OthersRows(contact_messages, own)]_vars

\* both users have their row for the Contact of W1 and their message for
\* it, the second one written while the first user's call was running
C29_Witness ==
    /\ procs[1].op = "saveFullContact" /\ procs[1].pc = "scm_upsert"
    /\ procs[2].op = "saveFullContact" /\ procs[2].pc = "done"
    /\ \A u \in {<<"u1">>, <<"u2">>} :
          \E r \in contacts_users :
              r.user_id = u /\ r.contact_id = SelectIdByWid(contacts, W1)
    /\ \E r \in contact_messages : r.user_id = <<"u2">>

\* C30: in the insert path of saveContact for a contact without wid, the
\* contact id the call is about to write into its contacts_users row is the
\* id of the Contact row this call has inserted, also when another save has
\* inserted a row in between.
C30_OwnInsertedIdIsUsed ==
    \A p \in Procs :
        (procs[p].pc = "sc_cu" /\ procs[p].created # 0)
            => procs[p].contactId = procs[p].created

-----------------------------------------------------------------------------
(* Link arrays, flags and deleted_at across repeated syncs *)

\* the identifiers recorded in the link column of a Contact row
LinkIds(row) ==
    IF row.link = NULL THEN {}
    ELSE {JSONParse(row.link)[k] : k \in 1..Len(JSONParse(row.link))} \ {NULL}

\* C31: an identifier that is in the link array of a Contact stays in it
\* after every later step of a sync.
C31_LinkOnlyGrows ==
    [][\A i \in 1..Len(contacts) : LinkIds(contacts[i]) \subseteq LinkIds(contacts'[i])]_vars

\* C35: the record getContactByLink serves from storage reports the there_is
\* flag stored on a Contact row its query matches.
C35_CachedThereIsIsStored ==
    \A p \in Procs :
        (/\ procs[p].op = "getContactByLink"
         /\ procs[p].pc = "done"
         /\ "data" \in DOMAIN procs[p].result)
            => \E i \in LinkMatches(contacts, procs[p].key) :
                  Truthy(contacts[i].there_is) = Truthy(procs[p].result.there_is)

\* the stored state of an observed flag: NULL only when the flag is absent
TriState(v) == IF v = NULL THEN NULL ELSE IF Truthy(v) THEN JsTrue ELSE JsFalse

\* C36: after saveContact has stored an observation that carries a contact,
\* the caller's ContactUser row holds is_business and is_enterprise as
\* observed: false as false, true as true, and NULL only for an absent flag.
C36_FlagsKeepThreeStates ==
    \A p \in Procs :
        (/\ procs[p].op = "saveContact"
         /\ procs[p].pc = "done"
         /\ procs[p].result = Ret(JsTrue)
         /\ procs[p].contactId # 0
         /\ HasOverlay(procs[p].info))
            => \A r \in contacts_users :
                  (r.contact_id = procs[p].contactId /\ r.user_id = procs[p].userId)
                     => /\ r.is_business = TriState(Field(procs[p].info.contact, "isBusiness"))
                        /\ r.is_enterprise = TriState(Field(procs[p].info.contact, "isEnterprise"))

\* C37: no step of saveContact, saveFullContact or saveContactsBatch changes
\* deleted_at of a ContactUser row: a soft-deleted row stays soft-deleted
\* when the contact is observed again, and an active row stays active.
C37_SyncKeepsDeletedAt ==
    [][(procs' # procs)
          => \A r \in contacts_users : \A x \in contacts_users' :
                (x.contact_id = r.contact_id /\ x.user_id = r.user_id)
                    => x.deleted_at = r.deleted_at]_vars

\* a soft-deleted row that a later sync of its contact has written again
C37_Witness ==
    \E r \in contacts_users :
        /\ r.deleted_at # NULL
        /\ Len(r.assigned_at) > Len(r.deleted_at)
        /\ \E p \in Procs : /\ procs[p].op \in {"saveContact", "saveFullContact", "saveContactsBatch"}
                            /\ procs[p].pc = "done"

\* the active users whose profile matches the normalized phone of the session
MatchingActiveUsers ==
    {k \in 1..Len(users) : AuthRowMatches(users[k], NormalizedPhone(aSession))}

\* C38: a session identity is attributed to at most one user: a run of
\* getDbUser that finds a user returns the id of the single active user whose
\* profile matches, and a second run on the same store state returns the same
\* id.
C38_OneUserPerSession ==
    /\ ("id" \in DOMAIN aOut /\ aOut.id # NULL)
          => /\ Cardinality(MatchingActiveUsers) = 1
             /\ \A k \in MatchingActiveUsers : users[k].id = aOut.id
    /\ ("again" \in DOMAIN aOut /\ ~aOut.fails /\ ~aOut.againFails)
          => aOut.again = aOut.id

-----------------------------------------------------------------------------
(* The chunks of saveContactsBatch *)

\* the chunks that start at or after i, one after the other
RECURSIVE ChunksFrom(_, _)
ChunksFrom(list, i) ==
    IF i >= Len(list) THEN << >>
    ELSE Chunk(list, i) \o ChunksFrom(list, i + BATCH_SIZE)

\* Math.ceil(n / BATCH_SIZE)
CeilOfChunks(n) == (n + BATCH_SIZE - 1) \div BATCH_SIZE

\* C39: saveContactsBatch splits its input, in input order, into consecutive
\* chunks of at most BATCH_SIZE items that together are the input; every
\* batch call is for one chunk that yields a statement, no chunk gets two
\* calls, a call moves the loop on to a later chunk, and there are at most
\* ceil(N / BATCH_SIZE) calls for N items.
C39_ChunksPartitionInput ==
    /\ [](\A p \in Procs :
            procs[p].op = "saveContactsBatch" =>
                LET pr == procs[p]
                    sub == pr.submitted
                IN  /\ ChunksFrom(pr.queue, 0) = pr.queue
                    /\ \A i \in ChunkStarts(pr.queue) :
                          Len(Chunk(pr.queue, i)) \in 1..BATCH_SIZE
                    /\ \A a \in 1..Len(sub) :
                          /\ sub[a].i \in ChunkStarts(pr.queue)
                          /\ Len(ChunkStatements(Chunk(pr.queue, sub[a].i), 1, pr.userId)) > 0
                    /\ \A a, b \in 1..Len(sub) : a < b => sub[a].i < sub[b].i
                    /\ Len(sub) <= CeilOfChunks(Len(pr.queue)))
    /\ [][\A p \in Procs :
            (procs[p].pc = "b_chunk" /\ procs'[p] # procs[p])
                => /\ Len(procs'[p].submitted) = Len(procs[p].submitted) + 1
                   /\ procs'[p].i > procs[p].i
                   /\ procs'[p].pc \in {"b_chunk", "done"}]_vars

\* a finished batch of more than one chunk, where a chunk without a
\* statement got no call and another chunk got one
C39_Witness ==
    \E p \in Procs :
        /\ BatchDone(p)
        /\ Len(procs[p].queue) > BATCH_SIZE
        /\ Len(procs[p].submitted) >= 1
        /\ Len(procs[p].submitted) < Cardinality(ChunkStarts(procs[p].queue))

-----------------------------------------------------------------------------
(* getAllContacts: the scan of the contact store *)

\* a JS Map as the sequence of its [key, data] pairs, in insertion order
MapHas(m, key) == \E k \in 1..Len(m) : m[k].key = key

MapGet(m, key) ==
    IF MapHas(m, key) THEN (CHOOSE e \in {m[k] : k \in 1..Len(m)} : e.key = key).data
    ELSE NoRec

\* Map.prototype.set: an existing key keeps its position
MapSet(m, key, data) ==
    IF MapHas(m, key)
    THEN [k \in 1..Len(m) |-> IF m[k].key = key THEN [key |-> key, data |-> data] ELSE m[k]]
    ELSE Append(m, [key |-> key, data |-> data])

MapDelete(m, key) == SelectSeq(m, LAMBDA e : e.key # key)

\* String.prototype.endsWith on an identifier
EndsWith(id, suffix) == Len(id) > 0 /\ id[Len(id)] = suffix

\* the lastMsg record built from messages[0] and the chat
LastMsgOf(chat) ==
    LET msg == chat.message
    IN  [message_id |-> msg.id, chat_id |-> chat.id,
         body |-> OrElse(Field(msg, "body"), << >>),
         type |-> OrElse(Field(msg, "type"), <<"chat">>),
         timestamp_ms |-> OrElse(Field(msg, "t"), Field(msg, "timestamp")),
         ack |-> Field(msg, "ack"),
         is_forwarded |-> OrElse(Field(msg, "isForwarded"), JsFalse),
         unread_count |-> OrElse(Field(chat, "unreadCount"), JsZero),
         has_unread |-> IF Truthy(Field(chat, "unreadCount")) THEN JsTrue ELSE JsFalse,
         exists_flag |-> JsTrue]

\* `chatInfo?.lastMessage || null`
ChatLastMessage(chatMap, id) ==
    LET chatInfo == MapGet(chatMap, id)
    IN  IF chatInfo = NoRec \/ chatInfo.lastMessage = NoRec THEN NoRec
        ELSE chatInfo.lastMessage

\* processLabels(model) over the labelMap the scan has: empty when the
\* label fetch failed
ScanLabels(opts, labelsOk, model) ==
    IF ~opts.includeLabels THEN << >>
    ELSE IF labelsOk THEN ProcessLabels(TRUE, Field(model, "labels"))
    ELSE << >>

\* phase 1, the entry of a group
GroupEntry(opts, labelsOk, chatMap, model) ==
    LET number == StripAtSuffix(model.id)
        shown == OrElse(Field(model, "name"), OrElse(Field(model, "pushname"), number))
    IN  [contact |-> [wid |-> model.id, name |-> shown, phone |-> number,
                      phoneBR |-> number, there_is |-> JsTrue,
                      link |-> <<model.id, number>>],
         contact_user |-> [lid |-> NULL, is_business |-> JsFalse,
                           is_contact_sync_completed |->
                               OrElse(Field(model, "isContactSyncCompleted"), JsZero),
                           is_enterprise |-> JsFalse, name |-> shown,
                           pushname |-> Field(model, "pushname"),
                           short_name |-> Field(model, "shortName"),
                           sync_to_addressbook |-> JsZero, type |-> <<"group">>,
                           verified_name |-> NULL, is_group |-> JsTrue,
                           labels |-> ScanLabels(opts, labelsOk, model)],
         lastMessage |-> ChatLastMessage(chatMap, model.id)]

\* phase 1, the entry of a @c.us contact
ContactEntry(opts, labelsOk, chatMap, model) ==
    LET number == OrElse(Field(model, "user"), StripAtSuffix(model.id))
        phoneBR == FormatPhoneBR(number)
        hasName == Truthy(Field(model, "name"))
    IN  [contact |-> [wid |-> model.id,
                      name |-> OrElse(Field(model, "name"),
                                      OrElse(Field(model, "pushname"), number)),
                      phone |-> number, phoneBR |-> phoneBR, there_is |-> JsTrue,
                      link |-> <<model.id, number, phoneBR>>],
         contact_user |-> [lid |-> NULL,
                           is_business |-> OrNull(Field(model, "isBusiness")),
                           is_contact_sync_completed |->
                               OrElse(Field(model, "isContactSyncCompleted"), JsZero),
                           is_enterprise |-> OrNull(Field(model, "isEnterprise")),
                           name |-> Field(model, "name"),
                           pushname |-> Field(model, "pushname"),
                           short_name |-> Field(model, "shortName"),
                           sync_to_addressbook |->
                               IF Truthy(Field(model, "isAddressBookContact"))
                               THEN JsOne ELSE JsZero,
                           type |-> IF hasName THEN <<"in">> ELSE <<"out">>,
                           verified_name |-> Field(model, "verifiedName"),
                           is_group |-> JsFalse,
                           labels |-> ScanLabels(opts, labelsOk, model)],
         lastMessage |-> ChatLastMessage(chatMap, model.id)]

\* phase 1: classify the models from k on into contactMap and lidMap
RECURSIVE Classify(_, _, _, _, _, _, _)
Classify(opts, labelsOk, chatMap, models, k, contactMap, lidMap) ==
    IF k > Len(models) THEN [contactMap |-> contactMap, lidMap |-> lidMap]
    ELSE LET model == models[k]
             id == Field(model, "id")
             hasName == Truthy(Field(model, "name"))
             number == OrElse(Field(model, "user"), StripAtSuffix(id))
             Go(cm, lm) == Classify(opts, labelsOk, chatMap, models, k + 1, cm, lm)
         IN  IF ~Truthy(id) \/ id \in {<<"0", "@c.us">>, <<"status", "@c.us">>}
             THEN Go(contactMap, lidMap)
             ELSE IF EndsWith(id, "@g.us")
             THEN IF opts.includeGroups
                  THEN Go(MapSet(contactMap, id,
                                 GroupEntry(opts, labelsOk, chatMap, model)), lidMap)
                  ELSE Go(contactMap, lidMap)
             ELSE IF EndsWith(id, "@c.us")
             THEN IF ~hasName /\ ~opts.includeUnsaved
                  THEN Go(contactMap, lidMap)
                  ELSE Go(MapSet(contactMap, number,
                                 ContactEntry(opts, labelsOk, chatMap, model)), lidMap)
             ELSE IF EndsWith(id, "@lid")
             THEN Go(contactMap, MapSet(lidMap, id, model))
             ELSE Go(contactMap, lidMap)

\* contact.getPnLidEntry(id) against the directory of the scanned account:
\* lidOf gives the lid of a @c.us id, phoneOf the @c.us id of a lid
DirectoryEntry(world, id) ==
    LET lid == IF EndsWith(id, "@lid") THEN id
               ELSE IF id \in DOMAIN world.lidOf THEN world.lidOf[id] ELSE NULL
        pn == IF EndsWith(id, "@c.us") THEN id
              ELSE IF id \in DOMAIN world.phoneOf THEN world.phoneOf[id] ELSE NULL
    IN  [lid |-> IF lid = NULL THEN NoRec ELSE [serialized |-> lid],
         phoneNumber |-> IF pn = NULL THEN NoRec
                         ELSE [serialized |-> pn, user |-> StripAtSuffix(pn)],
         contact |-> [name |-> world.entryName]]

\* `if (!data.contact.link.includes(lid)) data.contact.link.push(lid)`
PushOnce(link, id) ==
    IF \E k \in 1..Len(link) : link[k] = id THEN link ELSE Append(link, id)

\* phase 2, the body of the try for one contact once getPnLidEntry has
\* returned `entry`; served: the outcome of queryExists under validateServer
Enriched(opts, labelsOk, lidMap, data, entry, served) ==
    LET hasLid == entry.lid # NoRec
        lid == IF hasLid THEN entry.lid.serialized ELSE NULL
        lidModel == MapGet(lidMap, lid)
        inMap == hasLid /\ MapHas(lidMap, lid)
        labels == IF inMap /\ labelsOk
                  THEN MergeLabels(opts.includeLabels, data.contact_user.labels,
                                   Field(lidModel, "labels"))
                  ELSE data.contact_user.labels
        rename == hasLid /\ Truthy(Field(entry.contact, "name"))
                         /\ ~Truthy(data.contact_user.name)
        there_is == IF ~opts.validateServer THEN data.contact.there_is
                    ELSE IF served = "exists" THEN JsTrue ELSE JsFalse
    IN  [data |->
            [data EXCEPT
                !.contact = [data.contact EXCEPT
                    !.link = IF hasLid THEN PushOnce(@, lid) ELSE @,
                    !.name = IF rename THEN entry.contact.name ELSE @,
                    !.there_is = there_is],
                !.contact_user = [data.contact_user EXCEPT
                    !.lid = IF hasLid THEN lid ELSE @,
                    !.labels = labels,
                    !.name = IF rename THEN entry.contact.name ELSE @]],
         lidMap |-> IF inMap THEN MapDelete(lidMap, lid) ELSE lidMap,
         matched |-> IF inMap THEN {lid} ELSE {}]

\* phase 3, the entry of a lid promoted to the contact of phoneId
PromotedEntry(opts, labelsOk, chatMap, lidModel, entry) ==
    LET phoneId == entry.phoneNumber.serialized
        number == OrElse(Field(entry.phoneNumber, "user"), StripAtSuffix(phoneId))
        lidId == lidModel.id
        entryName == Field(entry.contact, "name")
        hasName == Truthy(Field(lidModel, "name")) \/ Truthy(entryName)
        phoneBR == FormatPhoneBR(number)
    IN  [contact |-> [wid |-> phoneId,
                      name |-> OrElse(entryName,
                                  OrElse(Field(lidModel, "name"),
                                      OrElse(Field(lidModel, "pushname"), number))),
                      phone |-> number, phoneBR |-> phoneBR, there_is |-> JsTrue,
                      link |-> <<phoneId, number, lidId, phoneBR>>],
         contact_user |-> [lid |-> lidId,
                           is_business |-> OrNull(Field(lidModel, "isBusiness")),
                           is_contact_sync_completed |->
                               OrElse(Field(lidModel, "isContactSyncCompleted"), JsZero),
                           is_enterprise |-> OrNull(Field(lidModel, "isEnterprise")),
                           name |-> OrElse(entryName, Field(lidModel, "name")),
                           pushname |-> Field(lidModel, "pushname"),
                           short_name |-> Field(lidModel, "shortName"),
                           sync_to_addressbook |-> IF hasName THEN JsOne ELSE JsZero,
                           type |-> IF hasName THEN <<"in">> ELSE <<"out">>,
                           verified_name |-> Field(lidModel, "verifiedName"),
                           is_group |-> JsFalse,
                           labels |-> ScanLabels(opts, labelsOk, lidModel)],
         lastMessage |-> ChatLastMessage(chatMap, phoneId)]

\* phase 3 without the test `!contactMap.has(number)`
PromotedOverExisting(opts, labelsOk, chatMap, contactMap, lidModel, entry) ==
    IF entry.phoneNumber = NoRec THEN contactMap
    ELSE LET number == OrElse(Field(entry.phoneNumber, "user"),
                              StripAtSuffix(entry.phoneNumber.serialized))
         IN  MapSet(contactMap, number,
                    PromotedEntry(opts, labelsOk, chatMap, lidModel, entry))

\* phase 3, the body of the try for one lid once getPnLidEntry has returned
Promoted(opts, labelsOk, chatMap, contactMap, lidModel, entry) ==
    IF entry.phoneNumber = NoRec THEN contactMap
    ELSE LET number == OrElse(Field(entry.phoneNumber, "user"),
                              StripAtSuffix(entry.phoneNumber.serialized))
         IN  IF MapHas(contactMap, number) THEN contactMap
             ELSE MapSet(contactMap, number,
                         PromotedEntry(opts, labelsOk, chatMap, lidModel, entry))

\* phase 4: `limit ? results.slice(0, limit) : results`; limit 0: not given
FinalResults(contactMap, limit) ==
    LET results == [k \in 1..Len(contactMap) |-> contactMap[k].data]
    IN  IF limit > 0 /\ limit < Len(results) THEN SubSeq(results, 1, limit) ELSE results

\* the scan between two awaits: its maps, the cursor of the running loop,
\* and the record of the calls that failed
ScanStart ==
    [pc |-> "labels", labelsOk |-> FALSE, chatMap |-> << >>, contactMap |-> << >>,
     lidMap |-> << >>, k |-> 1, msgFailed |-> {}, lookupFailed |-> {},
     matched |-> {}, promoted |-> {}, result |-> << >>]

\* `throw error` of the outer catch
ScanThrown(st) == [st EXCEPT !.pc = "thrown"]

\* the loops of phase 2, phase 3 and phase 4 up to the next await: groups are
\* passed over, and the result is built after the last lid
RECURSIVE ScanAdvance(_, _)
ScanAdvance(world, st) ==
    IF st.pc = "enrich"
    THEN IF st.k > Len(st.contactMap)
         THEN ScanAdvance(world, [st EXCEPT !.pc = "promote", !.k = 1])
         ELSE IF Truthy(st.contactMap[st.k].data.contact_user.is_group)
              THEN ScanAdvance(world, [st EXCEPT !.k = @ + 1])
              ELSE st
    ELSE IF st.pc = "promote" /\ st.k > Len(st.lidMap)
    THEN [st EXCEPT !.pc = "done",
                    !.result = FinalResults(st.contactMap, world.options.limit)]
    ELSE st

\* the loop over the chats up to the next await, then phase 1
ChatsAdvance(world, st) ==
    IF st.k <= Len(world.chats) THEN st
    ELSE LET maps == Classify(world.options, st.labelsOk, st.chatMap,
                              world.models, 1, << >>, << >>)
         IN  ScanAdvance(world, [st EXCEPT !.pc = "enrich", !.k = 1,
                                           !.contactMap = maps.contactMap,
                                           !.lidMap = maps.lidMap])

\* a lookup that throws out of the scan
AbortOnLookupFailure(st, id) == ScanThrown([st EXCEPT !.lookupFailed = @ \cup {id}])

\* the catch of a failed getPnLidEntry: a warning, and the loop goes on
AfterLookupFailure(st, id) == [st EXCEPT !.k = @ + 1, !.lookupFailed = @ \cup {id}]

\* getAllContacts(options): `if (!isReady) throw`, `if (!ContactStore) throw`
CallGetAllContacts ==
    /\ aOut = NoRec
    /\ "models" \in DOMAIN aSession
    /\ \E ready \in BOOLEAN :
         aOut' = IF ~ready THEN ScanThrown(ScanStart)
                 ELSE IF aSession.options.includeLabels THEN ScanStart
                 ELSE [ScanStart EXCEPT !.pc = "chats"]
    /\ AuthFrame

\* `await ConfigLabels.getAllLabels()` in its own try / catch
ScanFetchLabels ==
    /\ "pc" \in DOMAIN aOut /\ aOut.pc = "labels"
    /\ \E fails \in BOOLEAN :
         aOut' = [aOut EXCEPT !.pc = "chats", !.labelsOk = ~fails]
    /\ AuthFrame

\* `await ConfigChat.list()`, outside every inner try
ScanListChats ==
    /\ "pc" \in DOMAIN aOut /\ aOut.pc = "chats"
    /\ \E fails \in BOOLEAN :
         aOut' = IF fails THEN ScanThrown(aOut)
                 ELSE ChatsAdvance(aSession, [aOut EXCEPT !.pc = "messages", !.k = 1])
    /\ AuthFrame

\* one chat: `await ConfigChat.getMessages(chatId, {count: 1})` in its own
\* try / catch, then chatMap.set(chatId, {hasChat: true, lastMessage})
ScanChatMessage ==
    /\ "pc" \in DOMAIN aOut /\ aOut.pc = "messages"
    /\ LET chat == aSession.chats[aOut.k]
           asks == aSession.options.includeLastMessage
                      /\ Truthy(Field(chat, "lastReceivedKey"))
       IN  \E fails \in (IF asks THEN BOOLEAN ELSE {FALSE}) :
             LET lastMsg == IF asks /\ ~fails /\ chat.message # NoRec
                            THEN LastMsgOf(chat) ELSE NoRec
             IN  aOut' = ChatsAdvance(aSession,
                    [aOut EXCEPT
                        !.k = @ + 1,
                        !.chatMap = MapSet(@, chat.id,
                                       [hasChat |-> TRUE, lastMessage |-> lastMsg]),
                        !.msgFailed = IF fails THEN @ \cup {chat.id} ELSE @])
    /\ AuthFrame

\* phase 2, one contact: `await contact.getPnLidEntry(data.contact.wid)` and,
\* under validateServer, `await contact.queryExists(number)`
ScanEnrich ==
    /\ "pc" \in DOMAIN aOut /\ aOut.pc = "enrich"
    /\ LET data == aOut.contactMap[aOut.k].data
           key == aOut.contactMap[aOut.k].key
       IN  \E fails \in BOOLEAN :
           \E served \in (IF aSession.options.validateServer /\ ~fails
                          THEN {"exists", "absent", "throws"} ELSE {"none"}) :
             aOut' = ScanAdvance(aSession,
                IF fails THEN AfterLookupFailure(aOut, data.contact.wid)
                ELSE LET out == Enriched(aSession.options, aOut.labelsOk, aOut.lidMap,
                                         data, DirectoryEntry(aSession, data.contact.wid),
                                         served)
                     IN  [aOut EXCEPT !.k = @ + 1,
                                      !.contactMap = MapSet(@, key, out.data),
                                      !.lidMap = out.lidMap,
                                      !.matched = @ \cup out.matched])
    /\ AuthFrame

\* phase 3, one lid left in lidMap: `await contact.getPnLidEntry(lidId)`
ScanPromote ==
    /\ "pc" \in DOMAIN aOut /\ aOut.pc = "promote"
    /\ LET lidModel == aOut.lidMap[aOut.k].data
       IN  \E fails \in BOOLEAN :
             aOut' = ScanAdvance(aSession,
                IF fails THEN AfterLookupFailure(aOut, lidModel.id)
                ELSE LET cm == Promoted(aSession.options, aOut.labelsOk, aOut.chatMap,
                                        aOut.contactMap, lidModel,
                                        DirectoryEntry(aSession, lidModel.id))
                     IN  [aOut EXCEPT
                            !.k = @ + 1,
                            !.contactMap = cm,
                            !.promoted = IF cm # aOut.contactMap
                                         THEN @ \cup {lidModel.id} ELSE @])
    /\ AuthFrame

\* the scanned accounts: a group, two @c.us contacts and two lids, saved or
\* not, with the directory between them, one chat with a message and one
\* without
W3 == <<"5", "1", "9", "@c.us">>
L2 == <<"8", "@lid">>
G1 == <<"1", "2", "0", "@g.us">>

MaxLimit == 1

ScanModels ==
    {<<[id |-> G1, name |-> <<"Team">>],
       [id |-> W1, user |-> P1, name |-> n1, pushname |-> <<"ann">>, labels |-> <<"18">>]>>
        \o (IF w2 THEN <<[id |-> W2, user |-> P2, name |-> <<"Bob">>]>> ELSE << >>)
        \o <<[id |-> L1, name |-> n2, pushname |-> <<"lia">>, labels |-> <<"19">>]>>
        \o (IF l2 THEN <<[id |-> L2, name |-> NULL]>> ELSE << >>) :
        n1 \in {NULL, <<"Ann">>}, n2 \in {NULL, <<"Lia">>}, w2 \in BOOLEAN, l2 \in BOOLEAN}

ScanChats ==
    <<[id |-> W1, lastReceivedKey |-> JsTrue, unreadCount |-> JsOne,
       message |-> [id |-> <<"m1">>, body |-> <<"hi">>, type |-> <<"chat">>,
                    t |-> <<"#2">>, ack |-> JsOne]],
      [id |-> W3, lastReceivedKey |-> NULL, unreadCount |-> JsZero, message |-> NoRec]>>

ScanOptions ==
    {[includeGroups |-> g, includeUnsaved |-> u, validateServer |-> v,
      includeLastMessage |-> TRUE, includeLabels |-> TRUE, limit |-> l] :
        g \in BOOLEAN, u \in BOOLEAN, v \in BOOLEAN, l \in 0..MaxLimit}

ScanWorlds ==
    {[kind |-> "scan", options |-> o, models |-> m, chats |-> ScanChats,
      lidOf |-> (W1 :> a @@ W2 :> b), phoneOf |-> (L1 :> c @@ L2 :> d),
      entryName |-> e] :
        o \in ScanOptions, m \in ScanModels,
        a \in {NULL, L1}, b \in {NULL, L2},
        c \in {NULL, W1, W3}, d \in {NULL, W2, W3},
        e \in {NULL, <<"Dir">>}}

GetAllInit ==
    /\ aSession \in ScanWorlds
    /\ aOut = NoRec
    /\ users = DefaultUsers
    /\ contacts = << >>
    /\ contacts_users = {}
    /\ contact_messages = {}
    /\ last_insert_rowid = 0
    /\ me = <<AbsentSession, AbsentSession>>
    /\ procs = [p \in Procs |-> IdleProc]
    /\ client = DefaultClient
    /\ now = 0

GetAllNext ==
    \/ CallGetAllContacts
    \/ ScanFetchLabels
    \/ ScanListChats
    \/ ScanChatMessage
    \/ ScanEnrich
    \/ ScanPromote

GetAllSpec == GetAllInit /\ [][GetAllNext]_vars

-----------------------------------------------------------------------------
(* The scan: failures, promotion of lids, saved names *)

ScanDone == "pc" \in DOMAIN aOut /\ aOut.pc = "done"

\* the @c.us models phase 1 keeps
KeptModels ==
    {m \in {aSession.models[k] : k \in 1..Len(aSession.models)} :
        /\ EndsWith(m.id, "@c.us")
        /\ Truthy(Field(m, "name")) \/ aSession.options.includeUnsaved}

\* the entries of the kept model m: in the map of the scan, and returned
MapEntries(m) ==
    {aOut.contactMap[k].data : k \in {j \in 1..Len(aOut.contactMap) :
                                        aOut.contactMap[j].data.contact.wid = m.id}}

Returned(m) == \E k \in 1..Len(aOut.result) : aOut.result[k].contact.wid = m.id

\* the model of the scanned account with the id
ModelOf(id) ==
    CHOOSE m \in {aSession.models[k] : k \in 1..Len(aSession.models)} : m.id = id

\* C32: a failure of the label fetch, of the last-message fetch of a chat or
\* of the lid lookup of a contact does not abort getAllContacts: the scan
\* throws only when the connection is not ready or the chat list fails, and
\* a finished scan has every kept contact, returned unless the limit cuts it
\* off, the affected one with empty labels, no lastMessage or no lid, the
\* others with theirs.
C32_PartialEnrichmentNoAbort ==
    /\ [][("pc" \in DOMAIN aOut' /\ aOut'.pc = "thrown")
            => (aOut = NoRec \/ aOut.pc = "chats")]_vars
    /\ [](ScanDone =>
            \A m \in KeptModels :
                /\ Cardinality(MapEntries(m)) = 1
                /\ (aSession.options.limit = 0 => Returned(m))
                /\ \A e \in MapEntries(m) :
                      /\ e.contact_user.labels =
                            (IF ~aOut.labelsOk THEN << >>
                             ELSE IF e.contact_user.lid \in aOut.matched
                             THEN MergeLabels(TRUE, ProcessLabels(TRUE, Field(m, "labels")),
                                              Field(ModelOf(e.contact_user.lid), "labels"))
                             ELSE ProcessLabels(TRUE, Field(m, "labels")))
                      /\ e.lastMessage =
                            (IF m.id \in aOut.msgFailed \/ ~MapHas(aOut.chatMap, m.id)
                             THEN NoRec ELSE MapGet(aOut.chatMap, m.id).lastMessage)
                      /\ e.contact_user.lid =
                            (IF m.id \in aOut.lookupFailed THEN NULL
                             ELSE aSession.lidOf[m.id]))

\* a finished scan in which the three calls have failed for the first contact
\* and the second contact has got its lid
C32_Witness ==
    /\ ScanDone
    /\ ~aOut.labelsOk
    /\ W1 \in aOut.msgFailed
    /\ W1 \in aOut.lookupFailed
    /\ \E k \in 1..Len(aOut.result) : /\ aOut.result[k].contact.wid = W1
                                      /\ aOut.result[k].contact_user.lid = NULL
                                      /\ aOut.result[k].lastMessage = NoRec
    /\ \E k \in 1..Len(aOut.result) : /\ aOut.result[k].contact.wid = W2
                                      /\ aOut.result[k].contact_user.lid = L2

\* the lid models of the scanned account
LidModelIds ==
    {aSession.models[k].id : k \in {j \in 1..Len(aSession.models) :
                                        EndsWith(aSession.models[j].id, "@lid")}}

\* C33: in phase 3 of getAllContacts a lid becomes a new entry if and only if
\* its directory entry resolves to a phone number and no entry exists for
\* that number; the lids phase 3 goes through are those no @c.us contact was
\* matched to during enrichment, a matched lid is never promoted, and no two
\* entries have the same phone number.
C33_OrphanPromotedOnce ==
    /\ [][("pc" \in DOMAIN aOut /\ aOut.pc = "promote" /\ aOut' # aOut)
            => LET lidId == aOut.lidMap[aOut.k].key
                   pn == aSession.phoneOf[lidId]
                   resolves == pn # NULL /\ lidId \notin aOut'.lookupFailed
                   taken == \E j \in 1..Len(aOut.contactMap) :
                               aOut.contactMap[j].data.contact.phone = StripAtSuffix(pn)
                   isNew == /\ Len(aOut'.contactMap) = Len(aOut.contactMap) + 1
                            /\ SubSeq(aOut'.contactMap, 1, Len(aOut.contactMap))
                                  = aOut.contactMap
                            /\ LET e == aOut'.contactMap[Len(aOut'.contactMap)].data
                               IN  /\ e.contact_user.lid = lidId
                                   /\ e.contact.wid = pn
                                   /\ e.contact.phone = StripAtSuffix(pn)
               IN  /\ lidId \notin aOut.matched
                   /\ isNew <=> (resolves /\ ~taken)
                   /\ ~isNew => aOut'.contactMap = aOut.contactMap]_vars
    /\ []((("pc" \in DOMAIN aOut) /\ aOut.pc \in {"promote", "done"})
            => /\ {aOut.lidMap[k].key : k \in 1..Len(aOut.lidMap)}
                     = LidModelIds \ aOut.matched
               /\ aOut.promoted \cap aOut.matched = {}
               /\ (aOut.pc = "done" /\ aSession.options.limit = 0)
                     => \A lidId \in aOut.promoted :
                           \E k \in 1..Len(aOut.result) :
                              /\ aOut.result[k].contact_user.lid = lidId
                              /\ aOut.result[k].contact.wid = aSession.phoneOf[lidId]
               /\ \A i, j \in 1..Len(aOut.result) :
                     i # j => aOut.result[i].contact.phone # aOut.result[j].contact.phone
               /\ \A i, j \in 1..Len(aOut.contactMap) :
                     i # j => aOut.contactMap[i].data.contact.phone
                                 # aOut.contactMap[j].data.contact.phone)

\* a finished scan where one lid was matched during enrichment and the other
\* was promoted to the contact of a number no entry had
C33_Witness ==
    /\ ScanDone
    /\ L1 \in aOut.matched
    /\ L2 \in aOut.promoted
    /\ \E k \in 1..Len(aOut.result) : /\ aOut.result[k].contact.wid = W3
                                      /\ aOut.result[k].contact_user.lid = L2
    /\ \E k \in 1..Len(aOut.result) : /\ aOut.result[k].contact.wid = W1
                                      /\ aOut.result[k].contact_user.lid = L1

\* C34: with includeUnsaved = false every entry getAllContacts returns that
\* is not a group has type 'in'.
C34_OnlySavedWhenUnsavedExcluded ==
    (ScanDone /\ ~aSession.options.includeUnsaved)
        => \A k \in 1..Len(aOut.result) :
              ~Truthy(aOut.result[k].contact_user.is_group)
                  => aOut.result[k].contact_user.type = <<"in">>

====
